---------------------------- MODULE Spec2Model ----------------------------
(***************************************************************************)
(* A model of jstracking: the scale advisor (utils/Scale.js), the cascade  *)
(* classifier engine (training/ViolaJones.js), the object tracker          *)
(* (trackers/ObjectTracker.js) and the colour tracker                      *)
(* (trackers/ColorTracker.js).                                             *)
(*                                                                         *)
(* Numbers.  JavaScript numbers are modelled exactly: a fraction is kept   *)
(* as a pair of integers, Scale.scale as a whole number of tenths, and     *)
(* the IEEE results of a division by zero (Infinity, NaN) are separate     *)
(* cases of the operators that divide.                                     *)
(***************************************************************************)
EXTENDS Integers, Sequences, FiniteSets, TLC

VARIABLES
    scale,      \* Scale.scale, in tenths (10 is 1.0)
    adjW,       \* width of the last Scale.adjustScale call (0: none yet)
    adjH,       \* height of the last Scale.adjustScale call (0: none yet)
    rects,      \* mergeRectangles_: the raw detections (rects[i + 1] is rects[i])
    mpc,        \* mergeRectangles_: "pairs" (in the pair loops) or "done"
    mi,         \* mergeRectangles_: outer index i
    mj,         \* mergeRectangles_: inner index j
    parent,     \* mergeRectangles_: the DisjointSet's parent array
    unions,     \* the (i, j) of every disjointSet.union(i, j) call made so far
    result,     \* mergeRectangles_: the returned list
    evArgs,     \* evalStages_: its arguments (data, tables, i, j, width, block, scale)
    evPc,       \* evalStages_: "loop", or the value returned: "true" or "false"
    evW,        \* evalStages_: the cursor w into data
    evDone,     \* evalStages_: the number of stages evaluated so far
    classifiers,   \* ObjectTracker: this.classifiers
    initialScale,  \* ObjectTracker: this.initialScale, a fraction
    scaleFactor,   \* ObjectTracker: this.scaleFactor, a fraction
    stepSize,      \* ObjectTracker: this.stepSize, a fraction
    edgesDensity,  \* ObjectTracker: this.edgesDensity, a fraction
    tpc,        \* ObjectTracker: "none" (not constructed), "idle", or the place
                \* of the running track call: "for" (ObjectTracker.track's loop),
                \* "while", "rows", "cols", "return" (in ViolaJones.detect), "emit"
    lastCall,   \* the last call made: "new", "set" or "track"
    threw,      \* whether the last call threw an Error
    emitted,    \* the number of 'track' events the last call emitted
    lastData,   \* the data of the last 'track' event
    frame,      \* track: the frame (pixels, width, height) of the call
    cidx,       \* track: the index of the classifier in the for loop
    results,    \* track: results
    tables,     \* detect: the integral image tables
    dScale,     \* detect: scale, a fraction
    blockWidth,    \* detect: blockWidth
    blockHeight,   \* detect: blockHeight
    step,       \* detect: step
    di,         \* detect: i
    dj,         \* detect: j
    dRects,     \* detect: rects
    colors,        \* ColorTracker: this.colors
    minDimension,  \* ColorTracker: this.minDimension, a JavaScript number
    maxDimension,  \* ColorTracker: this.maxDimension, a JavaScript number
    minGroupSize,  \* ColorTracker: this.minGroupSize
    cpc,        \* ColorTracker: "none" (not constructed), "idle", or the place
                \* of the running track call: "for" or "emit"
    cLastCall,  \* the last call made on the ColorTracker: "new", "set" or "track"
    cThrew,     \* whether that call threw an Error
    cEmitted,   \* the number of 'track' events that call emitted
    cLastData,  \* the data of the last 'track' event of the ColorTracker
    image,      \* ColorTracker.track: pixels, width, height
    colorIdx,   \* ColorTracker.track: the place in the for-of loop
    cResults,   \* ColorTracker.track: results
    candidates, \* trackColor_: results, the boxes handed to mergeRectangles_
    tPos,       \* trackColor_: w / 4, the place of the loops over i and j
    marked,     \* trackColor_: the indices w with marked[w] = 1
    queue,      \* trackColor_: the stack queue[0..queuePosition], as (w, i, j)
    currGroup,  \* trackColor_: currGroup[0..], as far as written
    currGroupSize, \* trackColor_: currGroupSize
    dimC,       \* calculateDimensions_: c
    dimAcc,     \* calculateDimensions_: minx, maxx, miny, maxy
    pushedW,    \* trackColor_: the indices w pushed on the stack (and marked) in this call
    testedW,    \* trackColor_: the indices w handed to colorFn in this call
    repeated,   \* trackColor_: the indices w pushed or tested a second time in this call
    icP,        \* Fast.isCorner: p of the last call
    icCircle,   \* Fast.isCorner: circlePixels of the last call
    icThreshold,   \* Fast.isCorner: threshold of the last call
    icResult,   \* Fast.isCorner: "none", or what the last call returned
    circles_,   \* Fast.circles_: the memoized circle offsets, by width
    fpc,        \* Fast.findCorners: "idle", "scan" (in the loops) or "done"
    fImage,     \* Fast.findCorners: pixels, width, height
    fThreshold, \* Fast.findCorners: opt_threshold, after its default
    circleOffsets, \* Fast.findCorners: circleOffsets
    fMemoized,  \* Fast.findCorners: whether circleOffsets came from Fast.circles_
    fi,         \* Fast.findCorners: i
    fj,         \* Fast.findCorners: j
    corners,    \* Fast.findCorners: corners
    fReads,     \* Fast.findCorners: the buffer indices read for the last pixel tested
    fCalls,     \* the last findCorners calls that returned: image, threshold, corners
    events_,    \* EventEmitter: this.events_
    nextId,     \* the number of handlerInternal functions that once has made
    epc,        \* EventEmitter.emit: "idle", "loop" (in the for loop) or "return"
    eEvent,     \* EventEmitter.emit: event
    eArgs,      \* EventEmitter.emit: args
    ei,         \* EventEmitter.emit: i
    eThen,      \* the call emit returns to: "call" (the program) or addListener
    eSnapshot,  \* the listeners of the event when emit was called
    eLog,       \* the listeners this emit has invoked, with their arguments
    eRet,       \* what emit returns: "none", "true" or "false"
    cmPc,       \* ColorTracker.mergeRectangles_: "idle", "loop" or "done"
    cmIn,       \* ColorTracker.mergeRectangles_: rects as they were handed in
    cmRects,    \* ColorTracker.mergeRectangles_: rects
    cmR,        \* ColorTracker.mergeRectangles_: r
    cmOut,      \* ColorTracker.mergeRectangles_: results
    cmMin,      \* ColorTracker.mergeRectangles_: minDimension
    cmMax,      \* ColorTracker.mergeRectangles_: maxDimension
    taskPc,     \* "none": no TrackerTask yet, "task": one was constructed
    running_,   \* TrackerTask.running_
    reemitTrackEvent_, \* TrackerTask.reemitTrackEvent_ (id 0: undefined)
    trackerEvents, \* events_ of the tracker of the task
    taskEvents, \* events_ of the task
    callStack,  \* the calls that have not returned, the innermost last
    lastEvent,  \* the last of 'run' and 'stop' emitted on the task, or "none"
    taskCall,   \* the last call of run() or stop() on the task
    requestId,  \* requestId of trackVideo_ (0: undefined)
    pending     \* the animation frames requested and neither run nor cancelled

scaleVars == <<scale, adjW, adjH>>

mergeVars == <<rects, mpc, mi, mj, parent, unions, result>>

evalVars == <<evArgs, evPc, evW, evDone>>

configVars == <<classifiers, initialScale, scaleFactor, stepSize, edgesDensity>>

callVars == <<lastCall, threw, emitted, lastData>>

trackVars == <<frame, cidx, results>>

detectVars == <<tables, dScale, blockWidth, blockHeight, step, di, dj, dRects>>

objVars == <<configVars, tpc, callVars, trackVars, detectVars>>

colorConfig == <<colors, minDimension, maxDimension, minGroupSize>>

colorCall == <<cLastCall, cThrew, cEmitted, cLastData>>

colorTrack == <<image, colorIdx, cResults>>

visitVars == <<pushedW, testedW, repeated>>

floodVars == <<tPos, marked, queue, currGroup, currGroupSize, dimC, dimAcc, visitVars>>

colorVars == <<colorConfig, cpc, colorCall, colorTrack, candidates, floodVars>>

isCornerVars == <<icP, icCircle, icThreshold, icResult>>

findVars == <<fImage, fThreshold, circleOffsets, fMemoized, fi, fj, corners, fReads>>

fastVars == <<isCornerVars, circles_, fpc, findVars, fCalls>>

emitVars == <<epc, eEvent, eArgs, ei, eThen, eSnapshot, eLog, eRet>>

emitterVars == <<events_, nextId, emitVars>>

boxVars == <<cmPc, cmIn, cmRects, cmR, cmOut, cmMin, cmMax>>

videoVars == <<requestId, pending>>

taskVars == <<taskPc, running_, reemitTrackEvent_, trackerEvents, taskEvents, callStack,
              lastEvent, taskCall, videoVars>>

vars == <<scaleVars, mergeVars, evalVars, objVars, colorVars, fastVars, emitterVars, boxVars,
          taskVars>>

\* what the actions of each part leave unchanged
notScale == <<mergeVars, evalVars, objVars, colorVars, fastVars, emitterVars, boxVars,
    taskVars>>

notMerge == <<scaleVars, evalVars, objVars, colorVars, fastVars, emitterVars, boxVars,
    taskVars>>

notEval == <<scaleVars, mergeVars, objVars, colorVars, fastVars, emitterVars, boxVars,
    taskVars>>

notObj == <<scaleVars, mergeVars, evalVars, colorVars, fastVars, emitterVars, boxVars,
    taskVars>>

notColor == <<scaleVars, mergeVars, evalVars, objVars, fastVars, emitterVars, boxVars,
    taskVars>>

notFast == <<scaleVars, mergeVars, evalVars, objVars, colorVars, emitterVars, boxVars,
    taskVars>>

notEmitter == <<scaleVars, mergeVars, evalVars, objVars, colorVars, fastVars, boxVars,
    taskVars>>

notTask == <<scaleVars, mergeVars, evalVars, objVars, colorVars, fastVars, emitterVars,
            boxVars>>

notBox == <<scaleVars, mergeVars, evalVars, objVars, colorVars, fastVars, emitterVars,
    taskVars>>

(***************************************************************************)
(* Arithmetic helpers                                                      *)
(***************************************************************************)
Min(a, b) == IF a < b THEN a ELSE b

Max(a, b) == IF a > b THEN a ELSE b

\* floor(sqrt(q)) for an integer q >= 0
ISqrt(q) == CHOOSE n \in 0..q : n * n <= q /\ q < (n + 1) * (n + 1)

(***************************************************************************)
(* utils/Scale.js                                                          *)
(***************************************************************************)
PIXEL_THRESHOLD == 50000

\* Bounds of the frame sizes tried: small sides are multiples of SmallStep,
\* large sides multiples of LargeStep.
MaxDimK == 12

SmallStep == 20

LargeStep == 500

Dims == {SmallStep * k : k \in 1..MaxDimK} \cup {LargeStep * k : k \in 1..MaxDimK}

\* Math.round(ratio * 10) without the clamp, for ratio = 1/sqrt(w*h/PIXEL_THRESHOLD):
\* floor(10*ratio + 1/2) = floor((s + 1)/2) with s = 20*ratio
\* = sqrt(400*PIXEL_THRESHOLD/(w*h)), and floor((s + 1)/2) = (floor(s) + 1) \div 2.
RoundTenthsFloor(width, height) ==
    ISqrt((400 * PIXEL_THRESHOLD) \div (width * height)) \div 2

RoundTenths(width, height) ==
    (ISqrt((400 * PIXEL_THRESHOLD) \div (width * height)) + 1) \div 2

\* ratio = ratio > 1 ? 1 : ratio; this.scale = Math.round(ratio * 10) / 10
\* (ratio > 1 exactly when width*height < PIXEL_THRESHOLD)
adjustScale(width, height) ==
    IF width * height < PIXEL_THRESHOLD THEN 10 ELSE RoundTenths(width, height)

AdjustScale ==
    \E width \in Dims, height \in Dims :
        /\ scale' = adjustScale(width, height)
        /\ adjW' = width
        /\ adjH' = height
        /\ UNCHANGED notScale

(***************************************************************************)
(* JavaScript numbers: a finite value is the fraction n/d with d > 0; the  *)
(* other values are NaN, Infinity and -Infinity.                           *)
(***************************************************************************)
Fin(n, d) == [k |-> "fin", n |-> n, d |-> d]

Num(n) == Fin(n, 1)

NaN == [k |-> "nan", n |-> 0, d |-> 1]

Inf == [k |-> "inf", n |-> 1, d |-> 1]

NegInf == [k |-> "inf", n |-> -1, d |-> 1]

\* -1, 0 or 1; of an Infinity, its sign
Sign(a) == IF a.n > 0 THEN 1 ELSE IF a.n < 0 THEN -1 ELSE 0

SignedInf(s) == IF s < 0 THEN NegInf ELSE Inf

\* a * b
JsMul(a, b) ==
    IF a.k = "nan" \/ b.k = "nan" THEN NaN
    ELSE IF a.k = "inf" \/ b.k = "inf"
         THEN IF Sign(a) = 0 \/ Sign(b) = 0 THEN NaN ELSE SignedInf(Sign(a) * Sign(b))
         ELSE Fin(a.n * b.n, a.d * b.d)

\* a / b (a zero divisor is +0: every divisor of the model is a product of
\* non-negative numbers)
JsDiv(a, b) ==
    IF a.k = "nan" \/ b.k = "nan" THEN NaN
    ELSE IF b.k = "inf"
         THEN IF a.k = "inf" THEN NaN ELSE Num(0)
         ELSE IF a.k = "inf"
              THEN SignedInf(Sign(a) * (IF Sign(b) < 0 THEN -1 ELSE 1))
              ELSE IF b.n = 0
                   THEN IF a.n = 0 THEN NaN ELSE SignedInf(Sign(a))
                   ELSE IF b.n > 0 THEN Fin(a.n * b.d, a.d * b.n)
                        ELSE Fin(-(a.n * b.d), -(a.d * b.n))

\* a + b
JsAdd(a, b) ==
    IF a.k = "nan" \/ b.k = "nan" THEN NaN
    ELSE IF a.k = "inf" /\ b.k = "inf"
         THEN IF Sign(a) = Sign(b) THEN a ELSE NaN
         ELSE IF a.k = "inf" THEN a
              ELSE IF b.k = "inf" THEN b
                   ELSE Fin(a.n * b.d + b.n * a.d, a.d * b.d)

\* a - b
JsSub(a, b) == JsAdd(a, [b EXCEPT !.n = -b.n])

\* a < b (false when either is NaN)
JsLt(a, b) ==
    IF a.k = "nan" \/ b.k = "nan" THEN FALSE
    ELSE IF a.k = "inf" THEN Sign(a) < 0 /\ ~(b.k = "inf" /\ Sign(b) < 0)
         ELSE IF b.k = "inf" THEN Sign(b) > 0
              ELSE a.n * b.d < b.n * a.d

\* a >= b (false when either is NaN)
JsGe(a, b) ==
    IF a.k = "nan" \/ b.k = "nan" THEN FALSE
    ELSE IF b.k = "inf" THEN (Sign(b) < 0) \/ (a.k = "inf" /\ Sign(a) > 0)
         ELSE IF a.k = "inf" THEN Sign(a) > 0
              ELSE a.n * b.d >= b.n * a.d

\* x | 0: the integer part (towards zero); of NaN and the Infinities, 0
ToInt(a) ==
    IF a.k # "fin" THEN 0
    ELSE IF a.n >= 0 THEN a.n \div a.d ELSE -((-a.n) \div a.d)

(***************************************************************************)
(* math/TrackingMath.js and utils/DisjointSet.js                           *)
(***************************************************************************)
\* TrackingMath.intersectRect: the closed rectangles (x0,y0)-(x1,y1) and
\* (x2,y2)-(x3,y3) have a point in common
intersectRect(x0, y0, x1, y1, x2, y2, x3, y3) ==
    ~(JsLt(x1, x2) \/ JsLt(x3, x0) \/ JsLt(y1, y2) \/ JsLt(y3, y0))

\* new DisjointSet(length): every index is its own parent
DisjointSetNew(length) == [k \in 0..(length - 1) |-> k]

\* the indices on the way from i to its representative, i included
RECURSIVE PathOf(_, _)
PathOf(par, i) == IF par[i] = i THEN {i} ELSE {i} \cup PathOf(par, par[i])

\* DisjointSet.find's result
RECURSIVE FindRep(_, _)
FindRep(par, i) == IF par[i] = i THEN i ELSE FindRep(par, par[i])

\* DisjointSet.find's effect: the path from i now points at the representative
FindCompress(par, i) ==
    [k \in DOMAIN par |-> IF k \in PathOf(par, i) THEN FindRep(par, i) ELSE par[k]]

\* DisjointSet.union(i, j): the representative of i is given that of j as parent
Union(par, i, j) ==
    LET p1 == FindCompress(par, i)
        p2 == FindCompress(p1, j)
    IN  [p2 EXCEPT ![FindRep(par, i)] = FindRep(par, j)]

(***************************************************************************)
(* training/ViolaJones.js: mergeRectangles_                                *)
(***************************************************************************)
\* ViolaJones.REGIONS_OVERLAP = 0.5
REGIONS_OVERLAP == Fin(1, 2)

Rect(x, y, w, h) == [x |-> x, y |-> y, width |-> w, height |-> h]

\* (x1 - x2) * (y1 - y2) of lines 255-259
Overlap(r1, r2) ==
    LET x1 == Max(r1.x, r2.x)
        y1 == Max(r1.y, r2.y)
        x2 == Min(r1.x + r1.width, r2.x + r2.width)
        y2 == Min(r1.y + r1.height, r2.y + r2.height)
    IN  (x1 - x2) * (y1 - y2)

\* the condition of lines 263-264
OverlapRatiosOfUnion(r1, r2) ==
    LET overlap == Num(Overlap(r1, r2))
        area1 == Num(r1.width * r1.height)
        area2 == Num(r2.width * r2.height)
    IN  JsGe(JsDiv(overlap, JsSub(JsAdd(area1, area2), overlap)), REGIONS_OVERLAP)

OverlapRatiosNaNPasses(r1, r2) ==
    LET overlap == Num(Overlap(r1, r2))
        area1 == Num(r1.width * r1.height)
        area2 == Num(r2.width * r2.height)
    IN  /\ ~JsLt(JsDiv(overlap, JsMul(area1, JsDiv(area1, area2))), REGIONS_OVERLAP)
        /\ ~JsLt(JsDiv(overlap, JsMul(area2, JsDiv(area1, area2))), REGIONS_OVERLAP)

OverlapRatios(r1, r2) ==
    LET overlap == Num(Overlap(r1, r2))
        area1 == Num(r1.width * r1.height)
        area2 == Num(r2.width * r2.height)
    IN  /\ JsGe(JsDiv(overlap, JsMul(area1, JsDiv(area1, area2))), REGIONS_OVERLAP)
        /\ JsGe(JsDiv(overlap, JsMul(area2, JsDiv(area1, area2))), REGIONS_OVERLAP)

\* the two conditions of lines 253-264 under which union(i, j) is called
SameRegion(r1, r2) ==
    /\ intersectRect(Num(r1.x), Num(r1.y), Num(r1.x + r1.width), Num(r1.y + r1.height),
                     Num(r2.x), Num(r2.y), Num(r2.x + r2.width), Num(r2.y + r2.height))
    /\ OverlapRatios(r1, r2)

\* the body of the inner loop (lines 252-267) for the pair (i, j)
PairStep(rs, par, i, j) ==
    IF SameRegion(rs[i + 1], rs[j + 1]) THEN Union(par, i, j) ELSE par

\* the pair loops (lines 249-269) from pair number p on, pairs numbered
\* row by row: p = i * rects.length + j
RECURSIVE PairLoops(_, _, _)
PairLoops(rs, par, p) ==
    IF p >= Len(rs) * Len(rs) THEN par
    ELSE PairLoops(rs, PairStep(rs, par, p \div Len(rs), p % Len(rs)), p + 1)

\* let rep = disjointSet.find(k) (line 273)
GroupRepParent(par, k) == par[k]

GroupRep(par, k) == FindRep(par, k)

\* the keys of map, as Object.keys lists them: integer keys in ascending order
RECURSIVE SortedSeq(_)
SortedSeq(S) ==
    IF S = {} THEN <<>>
    ELSE LET m == CHOOSE a \in S : \A b \in S : a <= b
         IN  <<m>> \o SortedSeq(S \ {m})

MapKeys(par) == SortedSeq({GroupRep(par, k) : k \in DOMAIN par})

\* the members whose sums map[rep] holds (lines 272-289)
Members(par, rep) == {k \in DOMAIN par : GroupRep(par, k) = rep}

RECURSIVE SumOver(_, _, _)
SumOver(rs, S, f) ==
    IF S = {} THEN 0
    ELSE LET k == CHOOSE a \in S : TRUE
         IN  rs[k + 1][f] + SumOver(rs, S \ {k}, f)

\* ((sum / total + 0.5) / scale) | 0 of lines 297-300, scale in tenths
OutField(sum, total, sc) ==
    ToInt(JsDiv(JsAdd(JsDiv(Num(sum), Num(total)), Fin(1, 2)), Fin(sc, 10)))

\* lines 271-304: the groups and the returned list
MergeOutput(rs, par, sc) ==
    LET keys == MapKeys(par)
    IN  [q \in 1..Len(keys) |->
            LET mem == Members(par, keys[q])
                total == Cardinality(mem)
            IN  [total |-> total,
                 width |-> OutField(SumOver(rs, mem, "width"), total, sc),
                 height |-> OutField(SumOver(rs, mem, "height"), total, sc),
                 x |-> OutField(SumOver(rs, mem, "x"), total, sc),
                 y |-> OutField(SumOver(rs, mem, "y"), total, sc)]]

\* ViolaJones.mergeRectangles_(rects) with Scale.scale = sc tenths
mergeRectangles_(rs, sc) ==
    MergeOutput(rs, PairLoops(rs, DisjointSetNew(Len(rs)), 0), sc)

\* The raw detections tried: overlapping pairs, a chain, rectangles of zero
\* area, a larger rectangle and a rectangle that only touches another.
RectPool ==
    { Rect(10, 10, 20, 20), Rect(15, 15, 20, 20), Rect(20, 20, 20, 20),
      Rect(10, 10, 0, 20), Rect(15, 15, 20, 0), Rect(12, 12, 0, 0),
      Rect(10, 10, 30, 30), Rect(40, 40, 20, 20) }

MaxRects == 3

RectLists == UNION {[1..n -> RectPool] : n \in 0..MaxRects}

\* one pass of the inner loop body, then j++ and, at the end of a row, i++
MergePair ==
    /\ mpc = "pairs"
    /\ mi < Len(rects)
    /\ parent' = PairStep(rects, parent, mi, mj)
    /\ unions' = IF SameRegion(rects[mi + 1], rects[mj + 1])
                 THEN unions \cup {<<mi, mj>>} ELSE unions
    /\ IF mj + 1 < Len(rects)
       THEN mj' = mj + 1 /\ mi' = mi
       ELSE mj' = 0 /\ mi' = mi + 1
    /\ UNCHANGED <<notMerge, rects, mpc, result>>

\* lines 271-304, after the pair loops
MergeReturn ==
    /\ mpc = "pairs"
    /\ mi >= Len(rects)
    /\ result' = MergeOutput(rects, parent, scale)
    /\ mpc' = "done"
    /\ UNCHANGED <<notMerge, rects, mi, mj, parent, unions>>

(***************************************************************************)
(* utils/Image.js: the tables ViolaJones.detect scans                      *)
(***************************************************************************)
\* A frame: width, height, the gray value of each pixel and the Sobel
\* magnitude of each pixel, both row by row.
Frame(w, h, gray, edge) == [width |-> w, height |-> h, gray |-> gray, edge |-> edge]

Frames ==
    { Frame(5, 4, << 0, 0, 3, 3, 0,
                     0, 0, 3, 3, 0,
                     1, 1, 2, 2, 1,
                     1, 1, 2, 2, 1 >>,
                  << 0, 255, 0, 255, 0,
                     0, 255, 0, 255, 0,
                     255, 255, 255, 255, 255,
                     0, 0, 0, 0, 0 >>),
      Frame(5, 4, << 2, 2, 2, 2, 2,
                     2, 2, 2, 2, 2,
                     2, 2, 2, 2, 2,
                     2, 2, 2, 2, 2 >>,
                  << 0, 0, 0, 0, 0,
                     0, 0, 0, 0, 0,
                     0, 0, 0, 0, 0,
                     0, 0, 0, 0, 0 >>),
      Frame(4, 5, << 3, 0, 3, 0,
                     0, 3, 0, 3,
                     3, 0, 3, 0,
                     0, 3, 0, 3,
                     1, 1, 1, 1 >>,
                  << 255, 255, 255, 255,
                     255, 255, 255, 255,
                     255, 255, 255, 255,
                     255, 255, 255, 255,
                     0, 0, 0, 0 >>) }

RECURSIVE SumSet(_, _, _)
SumSet(px, S, square) ==
    IF S = {} THEN 0
    ELSE LET k == CHOOSE a \in S : TRUE
         IN  (IF square THEN px[k + 1] * px[k + 1] ELSE px[k + 1]) + SumSet(px, S \ {k}, square)

\* the summed-area table of px: entry y*width + x is the sum over the
\* rectangle from the origin to (x, y)
SummedArea(px, width, height, square) ==
    [q \in 1..(width * height) |->
        LET x == (q - 1) % width
            y == (q - 1) \div width
        IN  SumSet(px, {yy * width + xx : xx \in 0..x, yy \in 0..y}, square)]

\* the 45-degree tilted table: entry y*width + x is the sum over the pixels
\* (xx, yy) with yy <= y and |x - xx| <= y - yy
TiltedArea(px, width, height) ==
    [q \in 1..(width * height) |->
        LET x == (q - 1) % width
            y == (q - 1) \div width
        IN  SumSet(px, {c[2] * width + c[1] :
                           c \in {d \in (0..(width - 1)) \X (0..y) :
                                     d[1] - x <= y - d[2] /\ x - d[1] <= y - d[2]}}, FALSE)]

\* Image.computeIntegralImage: the four tables of a frame
computeIntegralImage(f) ==
    [ii |-> SummedArea(f.gray, f.width, f.height, FALSE),
     iis |-> SummedArea(f.gray, f.width, f.height, TRUE),
     tii |-> TiltedArea(f.gray, f.width, f.height),
     sobel |-> SummedArea(f.edge, f.width, f.height, FALSE)]

(***************************************************************************)
(* training/ViolaJones.js: evalStages_ and isTriviallyExcluded             *)
(***************************************************************************)
\* HAAR cascade data in the flat layout evalStages_ reads: minWidth,
\* minHeight, then per stage its threshold, its node count and its nodes
\* (tilted, rect count, the rects as left, top, width, height, weight, then
\* node threshold, left value, right value).  data[w] is At(data, w).
At(data, w) == data[w + 1]

\* three stages; the second has two nodes, the third a tilted node
CascadeA ==
    << 2, 2,
       1, 1,   0, 2,  0, 0, 1, 2, 1,   1, 0, 1, 2, -1,   0, 1, 0,
       2, 2,   0, 1,  0, 0, 2, 2, 1,   2, 1, 0,
               0, 1,  0, 0, 2, 1, 1,   2, 1, 2,
       1, 1,   1, 1,  1, 1, 1, 1, 1,   1, 0, 1 >>

\* one stage that every window passes
CascadeB ==
    << 2, 3,
       0, 1,   0, 1,  0, 0, 2, 3, 1,   0, 0, 0 >>

\* two stages; the first passes when the window's left half is the darker
CascadeC ==
    << 3, 2,
       1, 1,   0, 2,  0, 0, 1, 2, -1,  2, 0, 1, 2, 1,   1, 0, 1,
       3, 2,   0, 1,  0, 0, 3, 2, 1,   2, 1, 2,
               0, 1,  0, 1, 3, 1, 1,   1, 2, 1 >>

\* an Int32Array read: undefined, NaN in arithmetic, outside the array
Read(arr, idx) == IF idx \in 0..(Len(arr) - 1) THEN Num(arr[idx + 1]) ELSE NaN

\* table[a] - table[b] - table[d] + table[c]
Corners(table, a, b, d, c) ==
    JsAdd(JsSub(JsSub(Read(table, a), Read(table, b)), Read(table, d)), Read(table, c))

\* (base + v * scale + 0.5) | 0 of lines 186-189
Scaled(base, v, sc) == ToInt(JsAdd(JsAdd(Num(base), JsMul(Num(v), sc)), Fin(1, 2)))

\* lines 159-166: inverseArea, mean and variance of the window of ctx
InverseArea(ctx) == JsDiv(Num(1), Num(ctx.bw * ctx.bh))

WindowMean(ctx) ==
    LET wbA == ctx.i * ctx.width + ctx.j
        wbB == wbA + ctx.bw
        wbD == wbA + ctx.bh * ctx.width
        wbC == wbD + ctx.bw
    IN  JsMul(Corners(ctx.ii, wbA, wbB, wbD, wbC), InverseArea(ctx))

WindowVariance(ctx) ==
    LET wbA == ctx.i * ctx.width + ctx.j
        wbB == wbA + ctx.bw
        wbD == wbA + ctx.bh * ctx.width
        wbC == wbD + ctx.bw
    IN  JsSub(JsMul(Corners(ctx.iis, wbA, wbB, wbD, wbC), InverseArea(ctx)),
              JsMul(WindowMean(ctx), WindowMean(ctx)))

\* a < t * Math.sqrt(v) for a finite v > 0, by the signs and the squares
LtTimesSqrt(a, t, v) ==
    IF a.k = "nan" THEN FALSE
    ELSE IF a.k = "inf" THEN Sign(a) < 0
         ELSE IF t = 0 THEN Sign(a) < 0
              ELSE IF t > 0
                   THEN Sign(a) < 0 \/ JsLt(JsMul(a, a), JsMul(Num(t * t), v))
                   ELSE Sign(a) < 0 /\ JsLt(JsMul(Num(t * t), v), JsMul(a, a))

\* rectsSum * inverseArea < nodeThreshold * standardDeviation (line 224), with
\* standardDeviation = Math.sqrt(variance) if variance > 0, else 1
NodeGoesLeft(ctx, rectsSum, nodeThreshold) ==
    LET a == JsMul(rectsSum, InverseArea(ctx))
        v == WindowVariance(ctx)
    IN  IF ~JsLt(Num(0), v) THEN JsLt(a, Num(nodeThreshold))
        ELSE IF v.k = "inf" THEN JsLt(a, JsMul(Num(nodeThreshold), Inf))
             ELSE LtTimesSqrt(a, nodeThreshold, v)

\* one pass of the rect loop body (lines 186-217): the term added to rectsSum
RectTerm(ctx, w, tilted) ==
    LET rectLeft == Scaled(ctx.j, At(ctx.data, w), ctx.scale)
        rectTop == Scaled(ctx.i, At(ctx.data, w + 1), ctx.scale)
        rectWidth == Scaled(0, At(ctx.data, w + 2), ctx.scale)
        rectHeight == Scaled(0, At(ctx.data, w + 3), ctx.scale)
        rectWeight == Num(At(ctx.data, w + 4))
        width == ctx.width
    IN  IF tilted # 0
        THEN LET w1 == (rectLeft - rectHeight + rectWidth)
                         + (rectTop + rectWidth + rectHeight - 1) * width
                 w2 == rectLeft + (rectTop - 1) * width
                 w3 == (rectLeft - rectHeight) + (rectTop + rectHeight - 1) * width
                 w4 == (rectLeft + rectWidth) + (rectTop + rectWidth - 1) * width
             IN  JsMul(JsSub(JsSub(JsAdd(Read(ctx.tii, w1), Read(ctx.tii, w2)),
                                   Read(ctx.tii, w3)), Read(ctx.tii, w4)), rectWeight)
        ELSE LET w1 == rectTop * width + rectLeft
                 w2 == w1 + rectWidth
                 w3 == w1 + rectHeight * width
                 w4 == w3 + rectWidth
             IN  JsMul(Corners(ctx.ii, w1, w2, w3, w4), rectWeight)

\* the rect loop (lines 185-218) from rect r on: the cursor and rectsSum after it
RECURSIVE RectLoop(_, _, _, _, _, _)
RectLoop(ctx, w, r, rectsLength, tilted, rectsSum) ==
    IF r >= rectsLength THEN [w |-> w, rectsSum |-> rectsSum]
    ELSE RectLoop(ctx, w + 5, r + 1, rectsLength, tilted,
                  JsAdd(rectsSum, RectTerm(ctx, w, tilted)))

\* the node loop (lines 180-229): the cursor and stageSum after it
RECURSIVE NodeLoop(_, _, _, _)
NodeLoop(ctx, w, nodeLength, stageSum) ==
    IF nodeLength = 0 THEN [w |-> w, stageSum |-> stageSum]
    ELSE LET tilted == At(ctx.data, w)
             rectsLength == At(ctx.data, w + 1)
             rl == RectLoop(ctx, w + 2, 0, rectsLength, tilted, Num(0))
             nodeThreshold == At(ctx.data, rl.w)
             nodeLeft == At(ctx.data, rl.w + 1)
             nodeRight == At(ctx.data, rl.w + 2)
         IN  NodeLoop(ctx, rl.w + 3, nodeLength - 1,
                      stageSum + (IF NodeGoesLeft(ctx, rl.rectsSum, nodeThreshold)
                                  THEN nodeLeft ELSE nodeRight))

\* one pass of the stage loop body up to its test (lines 176-229)
Stage(ctx, w) ==
    LET nl == NodeLoop(ctx, w + 2, At(ctx.data, w + 1), 0)
    IN  [w |-> nl.w, stageSum |-> nl.stageSum, stageThreshold |-> At(ctx.data, w)]

\* if (stageSum < stageThreshold) return false (line 231)
StageFailsOrEqual(stageSum, stageThreshold) == stageSum <= stageThreshold

StageFails(stageSum, stageThreshold) == stageSum < stageThreshold

\* the stage loop (lines 175-235) from cursor w on
RECURSIVE StageLoop(_, _)
StageLoop(ctx, w) ==
    IF w >= Len(ctx.data) THEN TRUE
    ELSE LET st == Stage(ctx, w)
         IN  IF StageFails(st.stageSum, st.stageThreshold) THEN FALSE
             ELSE StageLoop(ctx, st.w)

\* ViolaJones.evalStages_
evalStages_(ctx) == StageLoop(ctx, 2)

\* ViolaJones.isTriviallyExcluded, edgesDensity being a fraction
isTriviallyExcluded(density, sobel, i, j, width, bw, bh) ==
    LET wbA == i * width + j
        wbB == wbA + bw
        wbD == wbA + bh * width
        wbC == wbD + bw
        blockEdgesDensity == JsDiv(Corners(sobel, wbA, wbB, wbD, wbC),
                                   Num(bw * bh * 255))
    IN  JsLt(blockEdgesDensity, density)

\* the arguments of an evalStages_ call on frame f
EvalContext(data, tb, f, i, j, bw, bh, sc) ==
    [data |-> data, ii |-> tb.ii, iis |-> tb.iis, tii |-> tb.tii,
     i |-> i, j |-> j, width |-> f.width, bw |-> bw, bh |-> bh, scale |-> sc]

Cascades == {CascadeA, CascadeB, CascadeC}

\* the scales of the windows tried, as fractions
EvalScales == {Fin(1, 1), Fin(5, 4), Fin(3, 2), Fin(25, 16)}

\* one pass of the stage loop: the stage at the cursor is evaluated and either
\* fails, and evalStages_ returns false, or the loop goes on
EvalStage ==
    /\ evPc = "loop"
    /\ evW < Len(evArgs.data)
    /\ LET st == Stage(evArgs, evW)
       IN  /\ evW' = st.w
           /\ evPc' = IF StageFails(st.stageSum, st.stageThreshold) THEN "false" ELSE "loop"
    /\ evDone' = evDone + 1
    /\ UNCHANGED <<notEval, evArgs>>

\* the stage loop ends: return true (line 235)
EvalReturnTrue ==
    /\ evPc = "loop"
    /\ evW >= Len(evArgs.data)
    /\ evPc' = "true"
    /\ UNCHANGED <<notEval, evArgs, evW, evDone>>

(***************************************************************************)
(* trackers/ObjectTracker.js and ViolaJones.detect                         *)
(***************************************************************************)
\* ViolaJones.classifiers: the HAAR data registered under each name
KnownClassifier(name) ==
    CASE name = "face" -> CascadeA
      [] name = "eye" -> CascadeB
      [] name = "mouth" -> CascadeC
      [] OTHER -> <<>>

ClassifierNames == {"face", "eye", "mouth"}

\* this.classifiers: undefined, the empty string, or an array of HAAR data
Undefined == [kind |-> "undefined", list |-> <<>>]

EmptyString == [kind |-> "string", list |-> <<>>]

Array(list) == [kind |-> "array", list |-> list]

\* !classifiers: undefined and '' are falsy, every array is truthy
Falsy(c) == c.kind # "array"

\* the constructor's argument: nothing, a name, or an array of names
OptClassifiers ==
    {Undefined, EmptyString} \cup
    {[kind |-> "name", list |-> <<n>>] : n \in ClassifierNames \cup {"nose"}} \cup
    {[kind |-> "names", list |-> l] :
        l \in {<<>>, <<"face">>, <<"eye", "mouth">>, <<"face", "nose">>}}

\* the values the setters are called with
InitialScales == {Fin(1, 1), Fin(2, 1)}

ScaleFactors == {Fin(1, 2), Fin(1, 1), Fin(5, 4), Fin(2, 1)}

StepSizes == {Fin(3, 2), Fin(1, 1), Fin(1, 4)}

EdgesDensities == {Fin(1, 5), Fin(0, 1)}

\* The raw detections of one detect call are capped: a call that never
\* returns would collect them without end.
MaxRaw == 10

NoFrame == Frame(0, 0, <<>>, <<>>)

NoTables == [ii |-> <<>>, iis |-> <<>>, tii |-> <<>>, sobel |-> <<>>]

\* no track call is running
TrackIdle ==
    /\ frame = NoFrame
    /\ cidx = 0
    /\ results = <<>>
    /\ tables = NoTables
    /\ dScale = Fin(0, 1)
    /\ blockWidth = 0
    /\ blockHeight = 0
    /\ step = 0
    /\ di = 0
    /\ dj = 0
    /\ dRects = <<>>

\* new ObjectTracker(opt_classifiers) (lines 14-35): names are replaced by
\* their HAAR data, an unknown name throws
ObjectTrackerNew ==
    /\ tpc = "none"
    /\ \E opt \in OptClassifiers :
          LET list == [q \in 1..Len(opt.list) |-> KnownClassifier(opt.list[q])]
              invalid == opt.kind \in {"name", "names"}
                           /\ \E q \in 1..Len(list) : list[q] = <<>>
          IN  /\ threw' = invalid
              /\ tpc' = IF invalid THEN "none" ELSE "idle"
              /\ classifiers' = IF invalid THEN classifiers
                                ELSE IF opt.kind \in {"name", "names"} THEN Array(list)
                                     ELSE opt
    /\ lastCall' = "new"
    /\ emitted' = 0
    /\ UNCHANGED <<notObj, initialScale, scaleFactor, stepSize, edgesDensity, lastData,
                   trackVars, detectVars>>

\* setInitialScale, setScaleFactor, setStepSize, setEdgesDensity (lines 147-173)
SetOption ==
    /\ tpc = "idle"
    /\ \/ \E v \in InitialScales :
            initialScale' = v /\ UNCHANGED <<scaleFactor, stepSize, edgesDensity>>
       \/ \E v \in ScaleFactors :
            scaleFactor' = v /\ UNCHANGED <<initialScale, stepSize, edgesDensity>>
       \/ \E v \in StepSizes :
            stepSize' = v /\ UNCHANGED <<initialScale, scaleFactor, edgesDensity>>
       \/ \E v \in EdgesDensities :
            edgesDensity' = v /\ UNCHANGED <<initialScale, scaleFactor, stepSize>>
    /\ lastCall' = "set"
    /\ threw' = FALSE
    /\ emitted' = 0
    /\ UNCHANGED <<notObj, classifiers, tpc, lastData, trackVars, detectVars>>

\* track(pixels, width, height), lines 114-121: throws without classifiers
TrackCall ==
    /\ tpc = "idle"
    /\ lastCall' = "track"
    /\ emitted' = 0
    /\ \E f \in Frames :
          IF Falsy(classifiers)
          THEN /\ threw' = TRUE
               /\ UNCHANGED <<tpc, trackVars>>
          ELSE /\ threw' = FALSE
               /\ tpc' = "for"
               /\ frame' = f
               /\ cidx' = 0
               /\ results' = <<>>
    /\ UNCHANGED <<notObj, configVars, lastData, detectVars>>

\* (scale * n) | 0
ScaledBlock(sc, n) == ToInt(JsMul(sc, Num(n)))

\* the head of the for loop (line 123) and, for the next classifier, the
\* entry of ViolaJones.detect (lines 65-84)
TrackFor ==
    /\ tpc = "for"
    /\ IF cidx < Len(classifiers.list)
       THEN LET data == classifiers.list[cidx + 1]
                sc == JsMul(initialScale, scaleFactor)
            IN  /\ tables' = computeIntegralImage(frame)
                /\ dScale' = sc
                /\ blockWidth' = ScaledBlock(sc, At(data, 0))
                /\ blockHeight' = ScaledBlock(sc, At(data, 1))
                /\ dRects' = <<>>
                /\ tpc' = "while"
       ELSE /\ tpc' = "emit"
            /\ UNCHANGED <<tables, dScale, blockWidth, blockHeight, dRects>>
    /\ UNCHANGED <<notObj, configVars, callVars, trackVars, step, di, dj>>

\* the head of the while loop (lines 86-88)
DetectWhile ==
    /\ tpc = "while"
    /\ IF blockWidth < frame.width /\ blockHeight < frame.height
       THEN /\ step' = ToInt(JsAdd(JsMul(dScale, stepSize), Fin(1, 2)))
            /\ di' = 0
            /\ tpc' = "rows"
       ELSE /\ tpc' = "return"
            /\ UNCHANGED <<step, di>>
    /\ UNCHANGED <<notObj, configVars, callVars, trackVars, tables, dScale, blockWidth,
                   blockHeight, dj, dRects>>

\* the head of the loop over i (line 88) and, when it ends, the next scale
\* (lines 108-110)
DetectRow ==
    /\ tpc = "rows"
    /\ IF di < frame.height - blockHeight
       THEN /\ dj' = 0
            /\ tpc' = "cols"
            /\ UNCHANGED <<dScale, blockWidth, blockHeight>>
       ELSE LET data == classifiers.list[cidx + 1]
                sc == JsMul(dScale, scaleFactor)
            IN  /\ dScale' = sc
                /\ blockWidth' = ScaledBlock(sc, At(data, 0))
                /\ blockHeight' = ScaledBlock(sc, At(data, 1))
                /\ tpc' = "while"
                /\ UNCHANGED dj
    /\ UNCHANGED <<notObj, configVars, callVars, trackVars, tables, step, di, dRects>>

\* lines 90-104: whether the window at (i, j) is pushed on rects
WindowAccepted(data, tb, f, i, j, bw, bh, sc, density) ==
    /\ ~(JsLt(Num(0), density)
           /\ isTriviallyExcluded(density, tb.sobel, i, j, f.width, bw, bh))
    /\ evalStages_(EvalContext(data, tb, f, i, j, bw, bh, sc))

\* the head of the loop over j (line 89) and one pass of its body
\* (lines 90-105), or, when it ends, i += step
DetectWindow ==
    /\ tpc = "cols"
    /\ Len(dRects) < MaxRaw
    /\ IF dj < frame.width - blockWidth
       THEN /\ dRects' = IF WindowAccepted(classifiers.list[cidx + 1], tables, frame,
                                           di, dj, blockWidth, blockHeight, dScale,
                                           edgesDensity)
                         THEN Append(dRects, Rect(dj, di, blockWidth, blockHeight))
                         ELSE dRects
            /\ dj' = dj + step
            /\ UNCHANGED <<di, tpc>>
       ELSE /\ di' = di + step
            /\ tpc' = "rows"
            /\ UNCHANGED <<dj, dRects>>
    /\ UNCHANGED <<notObj, configVars, callVars, trackVars, tables, dScale, blockWidth,
                   blockHeight, step>>

\* return this.mergeRectangles_(rects) (line 113) and results.concat of it
\* (ObjectTracker.js lines 124-127)
DetectReturn ==
    /\ tpc = "return"
    /\ results' = results \o mergeRectangles_(dRects, scale)
    /\ cidx' = cidx + 1
    /\ tpc' = "for"
    /\ UNCHANGED <<notObj, configVars, callVars, frame, detectVars>>

\* this.emit('track', {data: results}) (ObjectTracker.js lines 130-132)
TrackEmit ==
    /\ tpc = "emit"
    /\ emitted' = emitted + 1
    /\ lastData' = results
    /\ tpc' = "idle"
    /\ frame' = NoFrame
    /\ cidx' = 0
    /\ results' = <<>>
    /\ tables' = NoTables
    /\ dScale' = Fin(0, 1)
    /\ blockWidth' = 0
    /\ blockHeight' = 0
    /\ step' = 0
    /\ di' = 0
    /\ dj' = 0
    /\ dRects' = <<>>
    /\ UNCHANGED <<notObj, configVars, lastCall, threw>>

\* no ObjectTracker: the prototype's defaults (lines 44-65)
ObjIdle ==
    /\ classifiers = Undefined
    /\ initialScale = Fin(1, 1)
    /\ scaleFactor = Fin(5, 4)
    /\ stepSize = Fin(3, 2)
    /\ edgesDensity = Fin(1, 5)
    /\ tpc = "none"
    /\ lastCall = "new"
    /\ threw = FALSE
    /\ emitted = 0
    /\ lastData = <<>>
    /\ TrackIdle

(***************************************************************************)
(* trackers/ColorTracker.js                                                *)
(***************************************************************************)
\* the registered colours (lines 387-422)
KnownColors == {"cyan", "magenta", "yellow"}

\* ColorTracker.knownColors_[color](r, g, b)
ColorFn(color, r, g, b) ==
    CASE color = "cyan" ->
           \/ (g - r) >= 50 /\ (b - r) >= 70
           \/ (r - 0) * (r - 0) + (g - 255) * (g - 255) + (b - 255) * (b - 255) < 6400
      [] color = "magenta" ->
           \/ (r - g) >= 50 /\ (b - g) >= 50
           \/ (r - 255) * (r - 255) + (g - 0) * (g - 0) + (b - 255) * (b - 255) < 19600
      [] color = "yellow" ->
           \/ (r - b) >= 50 /\ (g - b) >= 50
           \/ (r - 255) * (r - 255) + (g - 255) * (g - 255) + (b - 0) * (b - 0) < 10000
      [] OTHER -> FALSE

\* the offsets of the eight neighbours: getNeighboursForWidth_ (lines 180-199)
\* and neighboursI, neighboursJ (lines 426-427)
getNeighboursForWidth_(width) ==
    << -width * 4, -width * 4 + 4, 4, width * 4 + 4,
       width * 4, width * 4 - 4, -4, -width * 4 - 4 >>

neighboursI == << -1, -1, 0, 1, 1, 1, 0, -1 >>

neighboursJ == << 0, 1, 1, 1, 0, -1, -1, -1 >>

\* pixels[w]
Px(img, w) == img.pixels[w + 1]

\* the for loop over k of lines 353-364: the unmarked neighbours inside the
\* image are pushed and marked
RECURSIVE PushNeighboursMarkedToo(_, _, _, _, _)
PushNeighboursMarkedToo(img, curr, k, stack, seen) ==
    IF k >= 8 THEN [stack |-> stack, seen |-> seen]
    ELSE LET otherW == curr.w + getNeighboursForWidth_(img.width)[k + 1]
             otherI == curr.i + neighboursI[k + 1]
             otherJ == curr.j + neighboursJ[k + 1]
         IN  IF /\ otherI >= 0 /\ otherI < img.height
                /\ otherJ >= 0 /\ otherJ < img.width
             THEN PushNeighboursMarkedToo(img, curr, k + 1,
                                 Append(stack, [w |-> otherW, i |-> otherI, j |-> otherJ]),
                                 seen \cup {otherW})
             ELSE PushNeighboursMarkedToo(img, curr, k + 1, stack, seen)

RECURSIVE PushNeighbours(_, _, _, _, _)
PushNeighbours(img, curr, k, stack, seen) ==
    IF k >= 8 THEN [stack |-> stack, seen |-> seen]
    ELSE LET otherW == curr.w + getNeighboursForWidth_(img.width)[k + 1]
             otherI == curr.i + neighboursI[k + 1]
             otherJ == curr.j + neighboursJ[k + 1]
         IN  IF /\ otherW \notin seen
                /\ otherI >= 0 /\ otherI < img.height
                /\ otherJ >= 0 /\ otherJ < img.width
             THEN PushNeighbours(img, curr, k + 1,
                                 Append(stack, [w |-> otherW, i |-> otherI, j |-> otherJ]),
                                 seen \cup {otherW})
             ELSE PushNeighbours(img, curr, k + 1, stack, seen)

\* currGroup[currGroupSize++] = v: currGroup holds pixels.length >> 2
\* entries, a write past its end is dropped
Store(group, size, v, capacity) == IF size < capacity THEN Append(group, v) ELSE group

\* the while loop of lines 345-367
RECURSIVE FloodFill(_, _, _, _, _, _)
FloodFill(img, color, stack, seen, group, size) ==
    IF stack = <<>> THEN [seen |-> seen, group |-> group, size |-> size]
    ELSE LET curr == stack[Len(stack)]
             rest == SubSeq(stack, 1, Len(stack) - 1)
             capacity == Len(img.pixels) \div 4
         IN  IF ColorFn(color, Px(img, curr.w), Px(img, curr.w + 1), Px(img, curr.w + 2))
             THEN LET pushed == PushNeighbours(img, curr, 0, rest, seen)
                  IN  FloodFill(img, color, pushed.stack, pushed.seen,
                                Store(Store(group, size, curr.j, capacity),
                                      size + 1, curr.i, capacity),
                                size + 2)
             ELSE FloodFill(img, color, rest, seen, group, size)

\* cloud[c]; past the end it is undefined, which compares like NaN
Cloud(cloud, c) == IF c < Len(cloud) THEN Num(cloud[c + 1]) ELSE NaN

\* maxx, maxy, minx, miny before the loop of calculateDimensions_ (lines
\* 110-113)
NoDimensions == [minx |-> Inf, maxx |-> Num(-1), miny |-> Inf, maxy |-> Num(-1)]

\* one pass of the for loop of calculateDimensions_ (lines 116-131)
DimensionsPass(cloud, c, acc) ==
    LET x == Cloud(cloud, c)
        y == Cloud(cloud, c + 1)
    IN  [minx |-> IF JsLt(x, acc.minx) THEN x ELSE acc.minx,
         maxx |-> IF JsLt(acc.maxx, x) THEN x ELSE acc.maxx,
         miny |-> IF JsLt(y, acc.miny) THEN y ELSE acc.miny,
         maxy |-> IF JsLt(acc.maxy, y) THEN y ELSE acc.maxy]

\* the for loop of calculateDimensions_ (lines 115-131)
RECURSIVE DimensionsLoop(_, _, _, _)
DimensionsLoop(cloud, total, c, acc) ==
    IF c >= total THEN acc
    ELSE DimensionsLoop(cloud, total, c + 2, DimensionsPass(cloud, c, acc))

\* the object calculateDimensions_ returns (lines 133-138), with data.color
\* = color of line 374
DimensionsOf(m, color) ==
    [width |-> JsSub(m.maxx, m.minx), height |-> JsSub(m.maxy, m.miny),
     x |-> m.minx, y |-> m.miny, color |-> color]

\* ColorTracker.prototype.calculateDimensions_
calculateDimensions_(cloud, total, color) ==
    DimensionsOf(DimensionsLoop(cloud, total, 0, NoDimensions), color)

\* Math.min and Math.max of two JavaScript numbers
JsMin(a, b) == IF a.k = "nan" \/ b.k = "nan" THEN NaN ELSE IF JsLt(b, a) THEN b ELSE a

JsMax(a, b) == IF a.k = "nan" \/ b.k = "nan" THEN NaN ELSE IF JsLt(a, b) THEN b ELSE a

\* lines 215-230: the index of the first later box that intersects rs[r],
\* 0 when there is none
LastIntersecting(rs, r) ==
    LET r1 == rs[r]
        S == {q \in (r + 1)..Len(rs) :
                intersectRect(r1.x, r1.y, JsAdd(r1.x, r1.width), JsAdd(r1.y, r1.height),
                              rs[q].x, rs[q].y, JsAdd(rs[q].x, rs[q].width),
                              JsAdd(rs[q].y, rs[q].height))}
    IN  IF S = {} THEN 0 ELSE CHOOSE q \in S : \A t \in S : q >= t

FirstIntersecting(rs, r) ==
    LET r1 == rs[r]
        S == {q \in (r + 1)..Len(rs) :
                intersectRect(r1.x, r1.y, JsAdd(r1.x, r1.width), JsAdd(r1.y, r1.height),
                              rs[q].x, rs[q].y, JsAdd(rs[q].x, rs[q].width),
                              JsAdd(rs[q].y, rs[q].height))}
    IN  IF S = {} THEN 0 ELSE CHOOSE q \in S : \A t \in S : q <= t

\* lines 219-227: r2 becomes the bounding box of r1 and r2
UnionBox(r1, r2) ==
    LET x1 == JsMin(r1.x, r2.x)
        y1 == JsMin(r1.y, r2.y)
        x2 == JsMax(JsAdd(r1.x, r1.width), JsAdd(r2.x, r2.width))
        y2 == JsMax(JsAdd(r1.y, r1.height), JsAdd(r2.y, r2.height))
    IN  [r2 EXCEPT !.height = JsSub(y2, y1), !.width = JsSub(x2, x1), !.x = x1, !.y = y1]

\* lines 232-238
WithinDimensionsOfWidth(r1, minDim, maxDim) ==
    JsGe(r1.width, minDim) /\ JsGe(maxDim, r1.width)

WithinDimensions(r1, minDim, maxDim) ==
    /\ JsGe(r1.width, minDim) /\ JsGe(r1.height, minDim)
    /\ JsGe(maxDim, r1.width) /\ JsGe(maxDim, r1.height)

\* the for loop over r of ColorTracker.prototype.mergeRectangles_
RECURSIVE ColorMergeLoop(_, _, _, _, _)
ColorMergeLoop(rs, r, out, minDim, maxDim) ==
    IF r > Len(rs) THEN out
    ELSE LET s == FirstIntersecting(rs, r)
         IN  IF s # 0
             THEN ColorMergeLoop([rs EXCEPT ![s] = UnionBox(rs[r], rs[s])], r + 1, out,
                                 minDim, maxDim)
             ELSE ColorMergeLoop(rs, r + 1,
                                 IF WithinDimensions(rs[r], minDim, maxDim)
                                 THEN Append(out, rs[r]) ELSE out,
                                 minDim, maxDim)

\* ColorTracker.prototype.mergeRectangles_ (lines 206-242)
colorMergeRectangles_(rs, minDim, maxDim) == ColorMergeLoop(rs, 1, <<>>, minDim, maxDim)

\* the loops over i and j of trackColor_ (lines 330-379), pos = i * width + j
RECURSIVE ScanLoop(_, _, _, _, _, _)
ScanLoop(img, color, minSize, pos, seen, found) ==
    IF pos >= img.width * img.height THEN found
    ELSE LET w == 4 * pos
             i == pos \div img.width
             j == pos % img.width
         IN  IF w \in seen THEN ScanLoop(img, color, minSize, pos + 1, seen, found)
             ELSE LET fill == FloodFill(img, color, <<[w |-> w, i |-> i, j |-> j]>>,
                                        seen \cup {w}, <<>>, 0)
                  IN  ScanLoop(img, color, minSize, pos + 1, fill.seen,
                               IF fill.size >= minSize
                               THEN Append(found,
                                           calculateDimensions_(fill.group, fill.size, color))
                               ELSE found)

\* results of trackColor_ when its loops end (line 381)
Candidates(img, color, minSize) ==
    IF color \notin KnownColors THEN <<>> ELSE ScanLoop(img, color, minSize, 0, {}, <<>>)

\* ColorTracker.prototype.trackColor_ (lines 311-382): an unregistered
\* colour gives the empty list
trackColor_(img, color, minSize, minDim, maxDim) ==
    IF color \notin KnownColors THEN <<>>
    ELSE colorMergeRectangles_(Candidates(img, color, minSize), minDim, maxDim)

\* trackColor_ is not inside its loops
FloodIdle ==
    /\ tPos = 0
    /\ marked = {}
    /\ queue = <<>>
    /\ currGroup = <<>>
    /\ currGroupSize = 0
    /\ dimC = 0
    /\ dimAcc = NoDimensions
    /\ pushedW = {}
    /\ testedW = {}
    /\ repeated = {}

\* RGBA pixels
Black == <<0, 0, 0, 255>>

Magenta == <<255, 0, 255, 255>>

Pink == <<230, 120, 200, 255>>

Cyan == <<0, 255, 255, 255>>

Yellow == <<255, 255, 0, 255>>

\* the frame of the given cells, row by row
RECURSIVE Flatten(_)
Flatten(cells) == IF cells = <<>> THEN <<>> ELSE Head(cells) \o Flatten(Tail(cells))

Image(width, height, cells) == [width |-> width, height |-> height, pixels |-> Flatten(cells)]

\* the frames track is called on
Images ==
    { Image(4, 3, << Black, Magenta, Magenta, Black,
                     Black, Magenta, Pink, Black,
                     Cyan, Black, Black, Black >>),
      Image(4, 3, << Magenta, Black, Black, Magenta,
                     Black, Black, Black, Magenta,
                     Yellow, Yellow, Black, Magenta >>),
      Image(3, 3, << Magenta, Magenta, Magenta,
                     Magenta, Magenta, Magenta,
                     Magenta, Magenta, Magenta >>),
      Image(3, 2, << Black, Black, Black,
                     Black, Black, Black >>),
      Image(3, 2, << Magenta, Magenta, Magenta,
                     Magenta, Magenta, Magenta >>),
      Image(4, 3, << Magenta, Magenta, Black, Black,
                     Magenta, Cyan, Black, Black,
                     Black, Black, Black, Black >>),
      Image(5, 2, << Magenta, Cyan, Cyan, Black, Magenta,
                     Magenta, Cyan, Yellow, Black, Black >>) }

\* the colour lists given to the constructor and to setColors
ColorLists ==
    {<<>>, <<"magenta">>, <<"cyan", "magenta">>, <<"magenta", "purple">>,
     <<"purple">>, <<"yellow">>}

OptColors ==
    {Undefined} \cup {[kind |-> "name", list |-> <<n>>] : n \in {"magenta", "purple"}}
        \cup {Array(l) : l \in ColorLists}

\* the values the setters are called with
MinGroupSizes == {30, 0, 2, 8}

MinDimensions == {Num(20), Num(0), Num(1)}

MaxDimensions == {Inf, Num(2)}

NoImage == Image(0, 0, <<>>)

\* new ColorTracker(opt_colors) (lines 14-29): an unregistered name throws
ColorTrackerNew ==
    /\ cpc = "none"
    /\ \E opt \in OptColors :
          LET invalid == opt.kind # "undefined"
                           /\ \E q \in 1..Len(opt.list) : opt.list[q] \notin KnownColors
          IN  /\ cThrew' = invalid
              /\ cpc' = IF invalid THEN "none" ELSE "idle"
              /\ colors' = IF invalid \/ opt.kind = "undefined" THEN colors
                           ELSE Array(opt.list)
    /\ cLastCall' = "new"
    /\ cEmitted' = 0
    /\ UNCHANGED <<notColor, minDimension, maxDimension, minGroupSize, cLastData,
                   colorTrack, candidates, floodVars>>

\* setColors, setMinDimension, setMaxDimension, setMinGroupSize (lines 248-274)
ColorSet ==
    /\ cpc = "idle"
    /\ \/ \E v \in {Undefined} \cup {Array(l) : l \in ColorLists} :
            colors' = v /\ UNCHANGED <<minDimension, maxDimension, minGroupSize>>
       \/ \E v \in MinDimensions :
            minDimension' = v /\ UNCHANGED <<colors, maxDimension, minGroupSize>>
       \/ \E v \in MaxDimensions :
            maxDimension' = v /\ UNCHANGED <<colors, minDimension, minGroupSize>>
       \/ \E v \in MinGroupSizes :
            minGroupSize' = v /\ UNCHANGED <<colors, minDimension, maxDimension>>
    /\ cLastCall' = "set"
    /\ cThrew' = FALSE
    /\ cEmitted' = 0
    /\ UNCHANGED <<notColor, cpc, cLastData, colorTrack, candidates, floodVars>>

\* ColorTracker.prototype.track, lines 283-290: throws without colors
ColorTrackCall ==
    /\ cpc = "idle"
    /\ cLastCall' = "track"
    /\ cEmitted' = 0
    /\ \E img \in Images :
          IF Falsy(colors)
          THEN /\ cThrew' = TRUE
               /\ UNCHANGED <<cpc, colorTrack>>
          ELSE /\ cThrew' = FALSE
               /\ cpc' = "for"
               /\ image' = img
               /\ colorIdx' = 0
               /\ cResults' = <<>>
    /\ UNCHANGED <<notColor, colorConfig, cLastData, candidates, floodVars>>

\* results.concat(more) (line 293)
ConcatInFront(list, more) == more \o list

Concat(list, more) == list \o more

\* one pass of the for-of loop (lines 292-294), or its end
ColorTrackFor ==
    /\ cpc = "for"
    /\ IF colorIdx < Len(colors.list)
       THEN /\ cResults' = Concat(cResults,
                                   trackColor_(image, colors.list[colorIdx + 1],
                                               minGroupSize, minDimension, maxDimension))
            /\ candidates' = Candidates(image, colors.list[colorIdx + 1], minGroupSize)
            /\ colorIdx' = colorIdx + 1
            /\ UNCHANGED cpc
       ELSE /\ cpc' = "emit"
            /\ UNCHANGED <<colorIdx, cResults, candidates>>
    /\ UNCHANGED <<notColor, colorConfig, colorCall, image, floodVars>>

\* this.emit('track', {data: results}) (lines 296-298)
ColorTrackEmit ==
    /\ cpc = "emit"
    /\ cEmitted' = cEmitted + 1
    /\ cLastData' = cResults
    /\ cpc' = "idle"
    /\ image' = NoImage
    /\ colorIdx' = 0
    /\ cResults' = <<>>
    /\ candidates' = <<>>
    /\ UNCHANGED <<notColor, colorConfig, cLastCall, cThrew, floodVars>>

\* no ColorTracker: the prototype's defaults (lines 75-97)
ColorIdle ==
    /\ colors = Array(<<"magenta">>)
    /\ minDimension = Num(20)
    /\ maxDimension = Inf
    /\ minGroupSize = 30
    /\ cpc = "none"
    /\ cLastCall = "new"
    /\ cThrew = FALSE
    /\ cEmitted = 0
    /\ cLastData = <<>>
    /\ image = NoImage
    /\ colorIdx = 0
    /\ cResults = <<>>
    /\ candidates = <<>>
    /\ FloodIdle

\* scenario B: a 40x40 frame, black but for one 10x10 magenta block whose
\* top left pixel is (bx, by)
SceneSize == 40

BlockSize == 10

Scene(bx, by) ==
    [width |-> SceneSize, height |-> SceneSize,
     pixels |-> [n \in 1..(SceneSize * SceneSize * 4) |->
                    LET pos == (n - 1) \div 4
                        x == pos % SceneSize
                        y == pos \div SceneSize
                        inside == /\ x >= bx /\ x < bx + BlockSize
                                  /\ y >= by /\ y < by + BlockSize
                    IN  IF inside THEN Magenta[((n - 1) % 4) + 1]
                        ELSE Black[((n - 1) % 4) + 1]]]

BlockPositions == {<<0, 0>>, <<15, 15>>, <<30, 30>>, <<5, 20>>}

Scenes == {Scene(b[1], b[2]) : b \in BlockPositions}

SceneMinDimensions == {Num(20), Num(0)}

\* new ColorTracker(['magenta']) (lines 14-29)
SceneTracker ==
    /\ colors = Array(<<"magenta">>)
    /\ minDimension = Num(20)
    /\ maxDimension = Inf
    /\ minGroupSize = 30
    /\ cpc = "idle"
    /\ cLastCall = "new"
    /\ cThrew = FALSE
    /\ cEmitted = 0
    /\ cLastData = <<>>
    /\ image = NoImage
    /\ colorIdx = 0
    /\ cResults = <<>>
    /\ candidates = <<>>
    /\ FloodIdle

\* setMinGroupSize(30) and setMinDimension (lines 256-274)
SceneSet ==
    /\ cpc = "idle"
    /\ \/ minGroupSize' = 30 /\ UNCHANGED minDimension
       \/ \E v \in SceneMinDimensions : minDimension' = v /\ UNCHANGED minGroupSize
    /\ cLastCall' = "set"
    /\ cThrew' = FALSE
    /\ cEmitted' = 0
    /\ UNCHANGED <<notColor, colors, maxDimension, cpc, cLastData, colorTrack, candidates,
                   floodVars>>

\* ColorTracker.prototype.track on a scene, lines 283-290
SceneTrackCall ==
    /\ cpc = "idle"
    /\ ~Falsy(colors)
    /\ \E img \in Scenes : image' = img
    /\ cLastCall' = "track"
    /\ cThrew' = FALSE
    /\ cEmitted' = 0
    /\ cpc' = "for"
    /\ colorIdx' = 0
    /\ cResults' = <<>>
    /\ UNCHANGED <<notColor, colorConfig, cLastData, candidates, floodVars>>

\* the head of the for-of loop (line 292) and the entry of trackColor_
\* (lines 311-328); an unregistered colour returns [] at once
TrackColorEnter ==
    /\ cpc = "for"
    /\ IF colorIdx < Len(colors.list)
       THEN IF colors.list[colorIdx + 1] \in KnownColors
            THEN /\ cpc' = "scan"
                 /\ candidates' = <<>>
                 /\ UNCHANGED <<colorIdx, cResults>>
            ELSE /\ cResults' = Concat(cResults, <<>>)
                 /\ colorIdx' = colorIdx + 1
                 /\ UNCHANGED <<cpc, candidates>>
       ELSE /\ cpc' = "emit"
            /\ UNCHANGED <<colorIdx, cResults, candidates>>
    /\ UNCHANGED <<notColor, colorConfig, colorCall, image, floodVars>>

\* Bound: the number of rectangles handed to ColorTracker.mergeRectangles_
MaxBoxes == 3

\* a rectangle of trackColor_
Box(x, y, width, height) ==
    [x |-> Num(x), y |-> Num(y), width |-> Num(width), height |-> Num(height),
     color |-> "magenta"]

\* the rectangles handed to mergeRectangles_
BoxPool == {Box(3, 1, 1, 1), Box(0, 0, 1, 5), Box(1, 4, 4, 1), Box(7, 7, 0, 2), Box(4, 2, 3, 3)}

BoxLists == UNION {[1..n -> BoxPool] : n \in 0..MaxBoxes}

\* ColorTracker.prototype.mergeRectangles_ called (lines 206-211)
ColorMergeCall ==
    /\ cmPc # "loop"
    /\ \E list \in BoxLists : cmIn' = list /\ cmRects' = list
    /\ \E v \in {Num(0), Num(2)} : cmMin' = v
    /\ \E v \in {Inf, Num(4)} : cmMax' = v
    /\ cmR' = 1
    /\ cmOut' = <<>>
    /\ cmPc' = "loop"
    /\ UNCHANGED notBox

\* one pass of the for loop over r (lines 213-239)
ColorMergeStep ==
    /\ cmPc = "loop"
    /\ cmR <= Len(cmRects)
    /\ LET s == FirstIntersecting(cmRects, cmR)
       IN  IF s # 0
           THEN /\ cmRects' = [cmRects EXCEPT ![s] = UnionBox(cmRects[cmR], cmRects[s])]
                /\ UNCHANGED cmOut
           ELSE /\ cmOut' = IF WithinDimensions(cmRects[cmR], cmMin, cmMax)
                            THEN Append(cmOut, cmRects[cmR]) ELSE cmOut
                /\ UNCHANGED cmRects
    /\ cmR' = cmR + 1
    /\ UNCHANGED <<notBox, cmPc, cmIn, cmMin, cmMax>>

\* return results (line 241)
ColorMergeReturn ==
    /\ cmPc = "loop"
    /\ cmR > Len(cmRects)
    /\ cmPc' = "done"
    /\ UNCHANGED <<notBox, cmIn, cmRects, cmR, cmOut, cmMin, cmMax>>

\* mergeRectangles_ is not running
BoxIdle ==
    /\ cmPc = "idle"
    /\ cmIn = <<>>
    /\ cmRects = <<>>
    /\ cmR = 0
    /\ cmOut = <<>>
    /\ cmMin = Num(0)
    /\ cmMax = Num(0)

\* setColors and setMinGroupSize (lines 248-250, 272-274)
FloodSet ==
    /\ cpc = "idle"
    /\ \/ \E l \in ColorLists \ {<<>>} :
            colors' = Array(l) /\ UNCHANGED minGroupSize
       \/ \E v \in MinGroupSizes :
            minGroupSize' = v /\ UNCHANGED colors
    /\ cLastCall' = "set"
    /\ cThrew' = FALSE
    /\ cEmitted' = 0
    /\ UNCHANGED <<notColor, minDimension, maxDimension, cpc, cLastData, colorTrack,
                   candidates, floodVars>>

\* ColorTracker.prototype.track on a frame, lines 283-290
FloodTrackCall ==
    /\ cpc = "idle"
    /\ ~Falsy(colors)
    /\ \E img \in Images : image' = img
    /\ cLastCall' = "track"
    /\ cThrew' = FALSE
    /\ cEmitted' = 0
    /\ cpc' = "for"
    /\ colorIdx' = 0
    /\ cResults' = <<>>
    /\ UNCHANGED <<notColor, colorConfig, cLastData, candidates, floodVars>>

\* the pixel at position pos starts a group that holds it: it is not
\* marked and is of the colour
Seeds(img, color, seen, pos) ==
    /\ 4 * pos \notin seen
    /\ ColorFn(color, Px(img, 4 * pos), Px(img, 4 * pos + 1), Px(img, 4 * pos + 2))

\* the passes of the loop over j (lines 331-377) from tPos to the end of
\* its row or to the next pixel that starts a group holding it: a marked
\* pixel is skipped (line 334), and a pixel that is not of the colour is
\* marked, pushed and popped and ends its group with currGroupSize = 0
ScanSkip ==
    /\ cpc = "scan"
    /\ tPos < image.width * image.height
    /\ LET color == colors.list[colorIdx + 1]
           rowEnd == (tPos \div image.width + 1) * image.width
           stops == {pos \in tPos..(rowEnd - 1) : Seeds(image, color, marked, pos)}
           stop == IF stops = {} THEN rowEnd
                   ELSE CHOOSE pos \in stops : \A q \in stops : pos <= q
           fresh == {pos \in tPos..(stop - 1) : 4 * pos \notin marked}
       IN  /\ stop > tPos
           /\ tPos' = stop
           /\ marked' = marked \cup {4 * pos : pos \in fresh}
           /\ pushedW' = pushedW \cup {4 * pos : pos \in fresh}
           /\ testedW' = testedW \cup {4 * pos : pos \in fresh}
           /\ repeated' = repeated \cup ({4 * pos : pos \in fresh} \cap (pushedW \cup testedW))
           /\ candidates' = IF 0 >= minGroupSize
                            THEN candidates \o [q \in 1..Cardinality(fresh) |->
                                                  calculateDimensions_(<<>>, 0, color)]
                            ELSE candidates
    /\ UNCHANGED <<notColor, colorConfig, cpc, colorCall, colorTrack, queue, currGroup,
                   currGroupSize, dimC, dimAcc>>

\* lines 336-343: the pixel at tPos starts a group. The entries of
\* currGroup at and after currGroupSize are never read: they are not kept.
SeedGroup ==
    /\ queue' = <<[w |-> 4 * tPos, i |-> tPos \div image.width, j |-> tPos % image.width]>>
    /\ marked' = marked \cup {4 * tPos}
    /\ pushedW' = pushedW \cup {4 * tPos}
    /\ repeated' = repeated \cup ({4 * tPos} \cap pushedW)
    /\ currGroup' = <<>>
    /\ currGroupSize' = 0
    /\ cpc' = "fill"
    /\ UNCHANGED <<tPos, testedW>>

\* the pass of the loop over j (lines 331-343) up to the while, for a pixel
\* of the colour that is not marked
ScanSeed ==
    /\ cpc = "scan"
    /\ tPos < image.width * image.height
    /\ Seeds(image, colors.list[colorIdx + 1], marked, tPos)
    /\ SeedGroup
    /\ UNCHANGED <<notColor, colorConfig, colorCall, colorTrack, candidates, dimC, dimAcc>>

\* the pass of the loop over j (lines 331-343) up to the while, for any
\* pixel: a marked pixel is skipped (line 334), another one starts a group
ScanPixel ==
    /\ cpc = "scan"
    /\ tPos < image.width * image.height
    /\ IF 4 * tPos \in marked
       THEN /\ tPos' = tPos + 1
            /\ UNCHANGED <<cpc, marked, queue, currGroup, currGroupSize, visitVars>>
       ELSE SeedGroup
    /\ UNCHANGED <<notColor, colorConfig, colorCall, colorTrack, candidates, dimC, dimAcc>>

\* one pass of the while loop (lines 345-367)
FloodPop ==
    /\ cpc = "fill"
    /\ queue # <<>>
    /\ LET curr == queue[Len(queue)]
           rest == SubSeq(queue, 1, Len(queue) - 1)
           capacity == Len(image.pixels) \div 4
       IN  IF ColorFn(colors.list[colorIdx + 1], Px(image, curr.w), Px(image, curr.w + 1),
                      Px(image, curr.w + 2))
           THEN LET pushed == PushNeighbours(image, curr, 0, rest, marked)
                    new == SubSeq(pushed.stack, Len(rest) + 1, Len(pushed.stack))
                IN  /\ queue' = pushed.stack
                    /\ marked' = pushed.seen
                    /\ pushedW' = pushedW \cup {new[q].w : q \in 1..Len(new)}
                    /\ repeated' = UNION {repeated,
                                            {curr.w} \cap testedW,
                                            {new[q].w : q \in 1..Len(new)} \cap pushedW,
                                            {new[q].w : q \in {t \in 1..Len(new) :
                                                \E u \in 1..(t - 1) : new[u].w = new[t].w}}}
                    /\ currGroup' = Store(Store(currGroup, currGroupSize, curr.j, capacity),
                                          currGroupSize + 1, curr.i, capacity)
                    /\ currGroupSize' = currGroupSize + 2
           ELSE /\ queue' = rest
                /\ repeated' = repeated \cup ({curr.w} \cap testedW)
                /\ UNCHANGED <<marked, currGroup, currGroupSize, pushedW>>
    /\ testedW' = testedW \cup {queue[Len(queue)].w}
    /\ UNCHANGED <<notColor, colorConfig, cpc, colorCall, colorTrack, candidates, tPos,
                   dimC, dimAcc>>

\* the end of the while loop (line 369): a group of the size enters
\* calculateDimensions_ (lines 110-113)
GroupEnd ==
    /\ cpc = "fill"
    /\ queue = <<>>
    /\ IF currGroupSize >= minGroupSize
       THEN /\ cpc' = "dims"
            /\ dimC' = 0
            /\ dimAcc' = NoDimensions
            /\ UNCHANGED tPos
       ELSE /\ cpc' = "scan"
            /\ tPos' = tPos + 1
            /\ UNCHANGED <<dimC, dimAcc>>
    /\ UNCHANGED <<notColor, colorConfig, colorCall, colorTrack, candidates, marked, queue,
                   currGroup, currGroupSize, visitVars>>

\* one pass of the for loop of calculateDimensions_ (lines 115-131)
DimensionsStep ==
    /\ cpc = "dims"
    /\ dimC < currGroupSize
    /\ dimAcc' = DimensionsPass(currGroup, dimC, dimAcc)
    /\ dimC' = dimC + 2
    /\ UNCHANGED <<notColor, colorConfig, cpc, colorCall, colorTrack, candidates, tPos,
                   marked, queue, currGroup, currGroupSize, visitVars>>

\* the end of calculateDimensions_ (lines 133-138) and results.push(data)
\* (lines 372-376)
DimensionsReturn ==
    /\ cpc = "dims"
    /\ dimC >= currGroupSize
    /\ candidates' = Append(candidates, DimensionsOf(dimAcc, colors.list[colorIdx + 1]))
    /\ tPos' = tPos + 1
    /\ cpc' = "scan"
    /\ dimC' = 0
    /\ dimAcc' = NoDimensions
    /\ UNCHANGED <<notColor, colorConfig, colorCall, colorTrack, marked, queue, currGroup,
                   currGroupSize, visitVars>>

\* return this.mergeRectangles_(results) (line 381) and the concat of line
\* 293
ScanReturn ==
    /\ cpc = "scan"
    /\ tPos = image.width * image.height
    /\ cResults' = Concat(cResults,
                          colorMergeRectangles_(candidates, minDimension, maxDimension))
    /\ colorIdx' = colorIdx + 1
    /\ cpc' = "for"
    /\ tPos' = 0
    /\ marked' = {}
    /\ currGroup' = <<>>
    /\ currGroupSize' = 0
    /\ pushedW' = {}
    /\ testedW' = {}
    /\ repeated' = {}
    /\ UNCHANGED <<notColor, colorConfig, colorCall, image, candidates, queue, dimC,
                   dimAcc>>

(***************************************************************************)
(* features/Fast.js                                                        *)
(***************************************************************************)
\* Fast.THRESHOLD (line 32)
THRESHOLD == 40

\* Fast.isBrighter and Fast.isDarker
isBrighter(circlePixel, p, threshold) == circlePixel - p > threshold

isDarker(circlePixel, p, threshold) == p - circlePixel > threshold

\* circlePixels[k]
Sample(circlePixels, k) == circlePixels[k + 1]

\* how many of the four cardinal samples satisfy test (lines 180-191, 195-206)
CardinalCount(circlePixels, p, threshold, test(_, _, _)) ==
    Cardinality({k \in {0, 4, 8, 12} : test(Sample(circlePixels, k), p, threshold)})

\* Fast.isTriviallyExcluded
fastIsTriviallyExcluded(circlePixels, p, threshold) ==
    /\ CardinalCount(circlePixels, p, threshold, isBrighter) < 3
    /\ CardinalCount(circlePixels, p, threshold, isDarker) < 3

\* the loop over y of Fast.isCorner (lines 121-137), with its two breaks
RECURSIVE ArcLoop(_, _, _, _, _, _, _)
ArcLoop(p, circlePixels, threshold, x, y, brighter, darker) ==
    IF y >= 9 THEN [brighter |-> brighter, darker |-> darker]
    ELSE LET circlePixel == Sample(circlePixels, (x + y) % 16)
             b == brighter /\ isBrighter(p, circlePixel, threshold)
             d == darker /\ isDarker(p, circlePixel, threshold)
         IN  IF ~isBrighter(p, circlePixel, threshold) /\ ~darker
             THEN [brighter |-> FALSE, darker |-> darker]
             ELSE IF ~isDarker(p, circlePixel, threshold) /\ ~b
                  THEN [brighter |-> b, darker |-> FALSE]
                  ELSE ArcLoop(p, circlePixels, threshold, x, y + 1, b, d)

\* the loop over x of Fast.isCorner (lines 117-144)
RECURSIVE StartLoop(_, _, _, _)
StartLoop(p, circlePixels, threshold, x) ==
    IF x >= 16 THEN FALSE
    ELSE LET r == ArcLoop(p, circlePixels, threshold, x, 0, TRUE, TRUE)
         IN  IF r.brighter \/ r.darker THEN TRUE
             ELSE StartLoop(p, circlePixels, threshold, x + 1)

\* Fast.isCorner
isCorner(p, circlePixels, threshold) ==
    IF fastIsTriviallyExcluded(circlePixels, p, threshold) THEN FALSE
    ELSE StartLoop(p, circlePixels, threshold, 0)

\* the sample values isCorner is called with: around p = 100 and threshold
\* 40, darker (59), just not darker (60), equal, just not brighter (140),
\* brighter (141)
SampleValues == {59, 60, 100, 140, 141}

\* a circle holding a on the arc of len samples from start, b elsewhere
Arc(start, len, a, b) == [q \in 1..16 |-> IF ((q - 1) - start) % 16 < len THEN a ELSE b]

CirclePatterns ==
    {Arc(start, len, a, b) : start \in 0..15, len \in 0..16, a \in SampleValues,
                             b \in SampleValues}

\* Fast.isCorner called on the arguments icP, icCircle, icThreshold
IsCornerCall ==
    /\ icResult = "none"
    /\ icCircle # <<>>
    /\ icResult' = IF isCorner(icP, icCircle, icThreshold) THEN "true" ELSE "false"
    /\ UNCHANGED <<notFast, icP, icCircle, icThreshold, circles_, fpc, findVars, fCalls>>

\* the circle computed by Fast.getCircleOffsets_ (lines 227-244)
CircleOfRadius4(width) ==
    << -4 * width, -4 * width + 1, -3 * width + 3, -width + 4,
       4, width + 4, 3 * width + 3, 4 * width + 1,
       4 * width, 4 * width - 1, 3 * width - 3, width - 4,
       -4, -width - 4, -3 * width - 3, -4 * width - 1 >>

CircleOf(width) ==
    << -3 * width, -3 * width + 1, -2 * width + 2, -width + 3,
       3, width + 3, 2 * width + 2, 3 * width + 1,
       3 * width, 3 * width - 1, 2 * width - 2, width - 3,
       -3, -width - 3, -2 * width - 2, -3 * width - 1 >>

\* Fast.getCircleOffsets_: the memoized circle of the width, or a new one
getCircleOffsetsAnyWidth(memo, width) ==
    IF DOMAIN memo # {} THEN memo[CHOOSE w \in DOMAIN memo : TRUE] ELSE CircleOf(width)

getCircleOffsets_(memo, width) ==
    IF width \in DOMAIN memo THEN memo[width] ELSE CircleOf(width)

\* this.circles_[width] = circle (line 246)
Memoize(memo, width) ==
    [w \in DOMAIN memo \cup {width} |-> getCircleOffsets_(memo, w)]

\* a grayscale buffer: hi on the pixels (x, y) of S, lo elsewhere
Gray(width, height, S, lo, hi) ==
    [width |-> width, height |-> height,
     pixels |-> [q \in 1..(width * height) |->
                    IF <<(q - 1) % width, (q - 1) \div width>> \in S THEN hi ELSE lo]]

\* pixels[w]; a read outside the buffer is undefined, stored as 0 in the
\* Int32Array circlePixels
GrayAt(img, w) == IF w \in 0..(Len(img.pixels) - 1) THEN img.pixels[w + 1] ELSE 0

\* the pixel (x, y) of the buffer, the coordinates clamped to the buffer
Clamped(img, x, y) ==
    GrayAt(img, Max(0, Min(img.height - 1, y)) * img.width + Max(0, Min(img.width - 1, x)))

\* the buffer moved by (dx, dy) to the right and down, the border padded
Shift(img, dx, dy) ==
    [width |-> img.width + dx, height |-> img.height + dy,
     pixels |-> [q \in 1..((img.width + dx) * (img.height + dy)) |->
                    Clamped(img, ((q - 1) % (img.width + dx)) - dx,
                            ((q - 1) \div (img.width + dx)) - dy)]]

\* a 12x12 buffer with a bright right-angle corner whose tip is (6, 6) and
\* which opens towards (sx, sy), contrast 100
CornerImage(sx, sy) ==
    Gray(12, 12, {c \in (0..11) \X (0..11) : (c[1] - 6) * sx >= 0 /\ (c[2] - 6) * sy >= 0},
         0, 100)

CornerImages == {CornerImage(sx, sy) : sx \in {-1, 1}, sy \in {-1, 1}}

\* a bright wedge that opens to the right from its tip (4, 3)
Wedge == {c \in (0..7) \X (0..6) : c[1] - 4 >= c[2] - 3 /\ c[1] - 4 >= 3 - c[2]}

\* small buffers with bright pixels: in the scanned part, next to it, none,
\* or a wedge; one buffer is too narrow to be scanned
BaseImages ==
    {Gray(8, 7, S, 0, 100) :
        S \in {{}, {<<3, 3>>}, {<<2, 3>>, <<3, 3>>}, {<<3, 3>>, <<4, 3>>}, Wedge}}
      \cup {Gray(6, 7, {<<3, 3>>}, 0, 100)}

\* the largest shift in each direction
MaxShift == 1

Shifts == ((0..MaxShift) \X (0..MaxShift)) \ {<<0, 0>>}

\* buffers given as they are: one too low to be scanned, one with corners in
\* two rows
FixedImages ==
    {Gray(8, 6, {<<3, 3>>}, 0, 100), Gray(7, 8, {<<3, 3>>, <<3, 4>>}, 0, 100)}

FastImages ==
    UNION {BaseImages, FixedImages,
           {Shift(img, d[1], d[2]) : img \in BaseImages, d \in Shifts}}

\* opt_threshold: not given, or a number
ThresholdArgs == {<<>>, <<40>>}

NoGray == Gray(0, 0, {}, 0, 0)

\* Fast.findCorners, lines 53-60: the circle of the width, the threshold
EnterFind(img, opt_threshold) ==
    /\ fImage' = img
    /\ circleOffsets' = getCircleOffsets_(circles_, img.width)
    /\ fMemoized' = (img.width \in DOMAIN circles_)
    /\ circles_' = Memoize(circles_, img.width)
    /\ fThreshold' = IF opt_threshold = <<>> THEN THRESHOLD ELSE opt_threshold[1]
    /\ corners' = <<>>
    /\ fi' = 3
    /\ fj' = 3
    /\ fReads' = {}
    /\ fpc' = "scan"
    /\ UNCHANGED <<notFast, isCornerVars, fCalls>>

\* Fast.findCorners called on a small buffer
FindCall ==
    /\ fpc = "idle"
    /\ \E img \in FastImages, opt_threshold \in ThresholdArgs : EnterFind(img, opt_threshold)

\* Fast.findCorners called on a buffer with one right-angle corner
FindCorner ==
    /\ fpc = "idle"
    /\ \E img \in CornerImages, opt_threshold \in ThresholdArgs : EnterFind(img, opt_threshold)

\* the loops of lines 65-85: the head of the loop over i, the head of the
\* loop over j, or one pass of its body
FindStep ==
    /\ fpc = "scan"
    /\ IF fi >= fImage.height - 3
       THEN /\ fpc' = "done"
            /\ UNCHANGED <<fi, fj, corners, fReads>>
       ELSE IF fj >= fImage.width - 3
            THEN /\ fi' = fi + 1
                 /\ fj' = 3
                 /\ UNCHANGED <<fpc, corners, fReads>>
            ELSE LET w == fi * fImage.width + fj
                     p == GrayAt(fImage, w)
                     circlePixels == [q \in 1..16 |-> GrayAt(fImage, w + circleOffsets[q])]
                     found == isCorner(p, circlePixels, fThreshold)
                 IN  /\ corners' = IF found THEN corners \o <<fj, fi>> ELSE corners
                     /\ fj' = IF found THEN fj + 3 + 1 ELSE fj + 1
                     /\ fReads' = {w + circleOffsets[q] : q \in 1..16}
                     /\ UNCHANGED <<fi, fpc>>
    /\ UNCHANGED <<notFast, isCornerVars, circles_, fImage, fThreshold, circleOffsets,
                   fMemoized, fCalls>>

\* return corners (line 87); the call is remembered, after the one before it
FindReturn ==
    /\ fpc = "done"
    /\ fCalls' = <<[image |-> fImage, threshold |-> fThreshold, corners |-> corners]>>
    /\ fpc' = "idle"
    /\ fImage' = NoGray
    /\ fThreshold' = 0
    /\ circleOffsets' = <<>>
    /\ fMemoized' = FALSE
    /\ fi' = 0
    /\ fj' = 0
    /\ corners' = <<>>
    /\ fReads' = {}
    /\ UNCHANGED <<notFast, isCornerVars, circles_>>

\* no call of Fast.findCorners made yet
FindIdle ==
    /\ circles_ = <<>>
    /\ fpc = "idle"
    /\ fImage = NoGray
    /\ fThreshold = 0
    /\ circleOffsets = <<>>
    /\ fMemoized = FALSE
    /\ fi = 0
    /\ fj = 0
    /\ corners = <<>>
    /\ fReads = {}
    /\ fCalls = <<>>

\* no call of Fast made yet
FastIdle ==
    /\ icP = 0
    /\ icCircle = <<>>
    /\ icThreshold = 0
    /\ icResult = "none"
    /\ FindIdle

(***************************************************************************)
(* utils/EventEmitter.js                                                   *)
(***************************************************************************)
\* Bounds: the listeners of one event, and the calls of once
MaxListeners == 2

MaxOnce == 2

Events == {"track", "newListener"}

\* the functions handed to addListener and removeListener: f and g do
\* nothing to the emitter, r calls removeListener('track', g)
Fn(kind, name) == [kind |-> kind, name |-> name, id |-> 0]

Functions == {Fn("plain", "f"), Fn("plain", "g"), Fn("remover", "g")}

\* handlerInternal of once('track', listener) (lines 85-88), one function
\* for each call of once
HandlerInternal(listener, id) == [kind |-> "once", name |-> listener.name, id |-> id]

\* the arguments of emit after the event
Args == {<<>>, <<"data">>}

\* this.events_: null (line 12), or an object of arrays by event
NoEvents == [kind |-> "null"]

Object(arrays) == [kind |-> "object", arrays |-> arrays]

EmptyObject == Object([e \in {} |-> <<>>])

\* this.listeners(event) is an array (lines 44-46)
HasListeners(ev, event) == ev.kind = "object" /\ event \in DOMAIN ev.arrays

\* this.listeners(event), [] standing for undefined and null
Listeners(ev, event) == IF HasListeners(ev, event) THEN ev.arrays[event] ELSE <<>>

\* listeners.indexOf(listener) + 1
IndexOf(list, listener) ==
    IF \E q \in 1..Len(list) : list[q] = listener
    THEN CHOOSE q \in 1..Len(list) : list[q] = listener /\ \A t \in 1..(q - 1) : list[t] # listener
    ELSE 0

\* listeners.splice(i, 1)
Splice(list, q) == SubSeq(list, 1, q - 1) \o SubSeq(list, q + 1, Len(list))

\* EventEmitter.prototype.removeListener (lines 117-135), listener a function
removeListener(ev, event, listener) ==
    IF ~HasListeners(ev, event) THEN ev
    ELSE LET q == IndexOf(ev.arrays[event], listener)
         IN  IF q = 0 THEN ev
             ELSE Object([ev.arrays EXCEPT ![event] = Splice(@, q)])

\* EventEmitter.prototype.removeAllListeners (lines 98-108)
removeAllListeners(ev, opt_event) ==
    IF ev.kind = "null" THEN ev
    ELSE IF opt_event # <<>>
         THEN Object([e \in DOMAIN ev.arrays \ {opt_event[1]} |-> ev.arrays[e]])
         ELSE NoEvents

\* lines 29-33 of addListener
Push(ev, event, listener) ==
    Object([e \in DOMAIN ev.arrays \cup {event} |->
               IF e = event THEN Append(Listeners(ev, event), listener) ELSE ev.arrays[e]])

\* listeners[i].apply(this, args) (line 60): what the function does to
\* this.events_
Apply(ev, listener) ==
    CASE listener.kind = "remover" -> removeListener(ev, "track", Fn("plain", listener.name))
      [] listener.kind = "once" -> removeListener(ev, "track", listener)
      [] OTHER -> ev

\* the head of emit (lines 54-57): without listeners it returns false
Emit(ev, event, args, then) ==
    /\ eEvent' = event
    /\ eArgs' = args
    /\ eThen' = then
    /\ ei' = 0
    /\ eLog' = <<>>
    /\ eSnapshot' = Listeners(ev, event)
    /\ IF HasListeners(ev, event)
       THEN epc' = "loop" /\ eRet' = "none"
       ELSE epc' = "return" /\ eRet' = "false"

\* emitter.emit(event, args...)
EmitCall ==
    /\ epc = "idle"
    /\ \E event \in Events, args \in Args : Emit(events_, event, args, [kind |-> "call"])
    /\ UNCHANGED <<notEmitter, events_, nextId>>

\* one pass of the for loop of emit (lines 58-62)
EmitStep ==
    /\ epc = "loop"
    /\ ei < Len(Listeners(events_, eEvent))
    /\ LET listener == Listeners(events_, eEvent)[ei + 1]
       IN  /\ eLog' = Append(eLog, [fn |-> listener, args |-> eArgs])
           /\ events_' = Apply(events_, listener)
    /\ ei' = ei + 1
    /\ UNCHANGED <<notEmitter, nextId, epc, eEvent, eArgs, eThen, eSnapshot, eRet>>

\* the end of the for loop and return true (line 63)
EmitLoopEnd ==
    /\ epc = "loop"
    /\ ei >= Len(Listeners(events_, eEvent))
    /\ eRet' = "true"
    /\ epc' = "return"
    /\ UNCHANGED <<notEmitter, events_, nextId, eEvent, eArgs, ei, eThen, eSnapshot, eLog>>

\* no emit is running
EmitIdle ==
    /\ epc = "idle"
    /\ eEvent = ""
    /\ eArgs = <<>>
    /\ ei = 0
    /\ eThen = [kind |-> "call"]
    /\ eSnapshot = <<>>
    /\ eLog = <<>>
    /\ eRet = "none"

\* emit has returned, to the program or to addListener (lines 29-35)
EmitReturn ==
    /\ epc = "return"
    /\ events_' = IF eThen.kind = "addListener"
                  THEN Push(events_, eThen.event, eThen.listener)
                  ELSE events_
    /\ epc' = "idle"
    /\ eEvent' = ""
    /\ eArgs' = <<>>
    /\ ei' = 0
    /\ eThen' = [kind |-> "call"]
    /\ eSnapshot' = <<>>
    /\ eLog' = <<>>
    /\ eRet' = "none"
    /\ UNCHANGED <<notEmitter, nextId>>

\* lines 20-27 of addListener, listener a function: this.events_ is made and
\* 'newListener' is emitted
AddListenerTo(event, listener) ==
    LET ev == IF events_.kind = "null" THEN EmptyObject ELSE events_
    IN  /\ events_' = ev
        /\ Emit(ev, "newListener", <<event, listener>>,
                [kind |-> "addListener", event |-> event, listener |-> listener])

\* emitter.addListener(event, listener), or emitter.on (line 74)
AddListener ==
    /\ epc = "idle"
    /\ \E event \in Events, listener \in Functions :
          /\ Len(Listeners(events_, event)) < MaxListeners
          /\ AddListenerTo(event, listener)
    /\ UNCHANGED <<notEmitter, nextId>>

\* emitter.once('track', listener) (lines 83-89)
Once ==
    /\ epc = "idle"
    /\ nextId < MaxOnce
    /\ Len(Listeners(events_, "track")) < MaxListeners
    /\ \E listener \in {Fn("plain", "f")} :
          AddListenerTo("track", HandlerInternal(listener, nextId + 1))
    /\ nextId' = nextId + 1
    /\ UNCHANGED notEmitter

\* emitter.removeListener(event, listener)
RemoveListener ==
    /\ epc = "idle"
    /\ \E event \in Events, listener \in Functions :
          events_' = removeListener(events_, event, listener)
    /\ UNCHANGED <<notEmitter, nextId, emitVars>>

\* emitter.removeAllListeners(opt_event)
RemoveAllListeners ==
    /\ epc = "idle"
    /\ \E opt_event \in {<<>>} \cup {<<e>> : e \in Events} :
          events_' = removeAllListeners(events_, opt_event)
    /\ UNCHANGED <<notEmitter, nextId, emitVars>>

\* a new EventEmitter
EmitterIdle ==
    /\ events_ = NoEvents
    /\ nextId = 0
    /\ EmitIdle

(***************************************************************************)
(* TrackerTask (src/trackers/ObjectTracker.js, lines 180-273) on a tracker *)
(* that is an EventEmitter, and the video task of tracking.trackVideo_     *)
(* (part_001, lines 508-563).  A listener runs inside the emit that calls  *)
(* it, so the calls that have not returned are kept on a stack.            *)
(***************************************************************************)

\* the largest number of listeners of the tracker's 'track' event
MaxClosures == 3

\* the largest number of calls that have not returned
MaxDepth == 6

\* the largest number of listeners the program adds to one event of the task
MaxTaskListeners == 1

\* the largest number of animation frames requested and not yet run
MaxPending == 2

TaskEvents == {"run", "stop", "track"}

\* the arrow function made by run() (lines 251-253), one for each call
Reemit(id) == [kind |-> "reemit", name |-> "reemitTrackEvent_", id |-> id]

\* the listeners the program adds to the task: one that leaves the task
\* alone, and one that may call run() or stop() on it
TaskListeners == {Fn("plain", "f"), Fn("caller", "g")}

\* the listeners trackVideo_ adds to the task (lines 555-561)
CancelListener == Fn("cancel", "stop")

ScheduleListener == Fn("schedule", "run")

\* the calls on the stack: an emit in its for loop, stop() before line 270,
\* the callback of requestAnimationFrame before line 550
EmitFrame(target, event) == [kind |-> "emit", target |-> target, event |-> event, i |-> 0]

StopFrame == [kind |-> "stop", target |-> "task", event |-> "", i |-> 0]

CallbackFrame == [kind |-> "callback", target |-> "window", event |-> "", i |-> 0]

Top == callStack[Len(callStack)]

Pop == SubSeq(callStack, 1, Len(callStack) - 1)

\* TrackerTask.prototype.inRunning (lines 219-221)
inRunningNever == FALSE

inRunning == running_

\* the identity of a new function: one that no listener array holds
NewClosure ==
    LET used == {Listeners(trackerEvents, "track")[q].id :
                    q \in 1..Len(Listeners(trackerEvents, "track"))}
    IN  CHOOSE id \in 1..MaxClosures : id \notin used /\ \A t \in 1..(id - 1) : t \in used

\* the handle window.requestAnimationFrame returns: one that is not pending
NewRequest ==
    CHOOSE id \in 1..MaxPending : id \notin pending /\ \A t \in 1..(id - 1) : t \in pending

\* run() and stop() are called when the bounds leave room for what they do
CanCall ==
    /\ Len(callStack) + 2 <= MaxDepth
    /\ Len(Listeners(trackerEvents, "track")) < MaxClosures

\* the record of a call of run() or stop()
Called(fn) == [fn |-> fn, n |-> 1 - taskCall.n, running |-> running_]

\* TrackerTask.prototype.run (lines 245-257), called with st the stack of
\* its caller
TaskRun(st) ==
    /\ taskCall' = Called("run")
    /\ IF inRunning
       THEN /\ callStack' = st
            /\ UNCHANGED <<running_, reemitTrackEvent_, trackerEvents, lastEvent>>
       ELSE LET ev == IF trackerEvents.kind = "null" THEN EmptyObject ELSE trackerEvents
                closure == Reemit(NewClosure)
            IN  /\ running_' = TRUE
                /\ reemitTrackEvent_' = closure
                /\ trackerEvents' = Push(ev, "track", closure)
                /\ lastEvent' = "run"
                /\ callStack' = Append(st, EmitFrame("task", "run"))

\* TrackerTask.prototype.stop (lines 265-269), called with st the stack of
\* its caller; line 270 is StopRemove
TaskStop(st) ==
    /\ taskCall' = Called("stop")
    /\ IF ~inRunning
       THEN /\ callStack' = st
            /\ UNCHANGED <<running_, reemitTrackEvent_, trackerEvents, lastEvent>>
       ELSE /\ running_' = FALSE
            /\ lastEvent' = "stop"
            /\ callStack' = st \o <<StopFrame, EmitFrame("task", "stop")>>
            /\ UNCHANGED <<reemitTrackEvent_, trackerEvents>>

\* task.run() called by the program
RunCall ==
    /\ taskPc = "task"
    /\ callStack = <<>>
    /\ CanCall
    /\ Cardinality(pending) < MaxPending
    /\ TaskRun(callStack)
    /\ UNCHANGED <<notTask, taskPc, taskEvents, videoVars>>

\* task.stop() called by the program
StopCall ==
    /\ taskPc = "task"
    /\ callStack = <<>>
    /\ CanCall
    /\ TaskStop(callStack)
    /\ UNCHANGED <<notTask, taskPc, taskEvents, videoVars>>

\* line 270 of stop(), after emit('stop') has returned
StopRemove ==
    /\ callStack # <<>>
    /\ Top.kind = "stop"
    /\ trackerEvents' = removeListener(trackerEvents, "track", reemitTrackEvent_)
    /\ callStack' = Pop
    /\ UNCHANGED <<notTask, taskPc, running_, reemitTrackEvent_, taskEvents, lastEvent,
                   taskCall, videoVars>>

\* task.on(event, listener) called by the program (EventEmitter lines 20-37)
TaskOn ==
    /\ taskPc = "task"
    /\ callStack = <<>>
    /\ \E event \in TaskEvents, listener \in TaskListeners :
          LET ev == IF taskEvents.kind = "null" THEN EmptyObject ELSE taskEvents
              own == {q \in 1..Len(Listeners(ev, event)) :
                         Listeners(ev, event)[q] \in TaskListeners}
          IN  /\ Cardinality(own) < MaxTaskListeners
              /\ taskEvents' = Push(ev, event, listener)
    /\ UNCHANGED <<notTask, taskPc, running_, reemitTrackEvent_, trackerEvents, callStack,
                   lastEvent, taskCall, videoVars>>

\* tracker.emit('track', event), as the end of tracker.track does
EmitTrack(st) == callStack' = Append(st, EmitFrame("tracker", "track"))

\* tracker.track called by the program
TrackerTrack ==
    /\ taskPc = "task"
    /\ callStack = <<>>
    /\ EmitTrack(callStack)
    /\ UNCHANGED <<notTask, taskPc, running_, reemitTrackEvent_, trackerEvents, taskEvents,
                   lastEvent, taskCall, videoVars>>

\* the emit on top of the stack: its array, read at every pass (line 58)
TopListeners ==
    Listeners(IF Top.target = "tracker" THEN trackerEvents ELSE taskEvents, Top.event)

InLoop ==
    /\ callStack # <<>>
    /\ Top.kind = "emit"
    /\ Top.i < Len(TopListeners)

\* the listener of this pass, and the stack once i++ is done
TopListener == TopListeners[Top.i + 1]

Stepped == Append(Pop, [Top EXCEPT !.i = @ + 1])

\* one pass of the for loop of emit (lines 58-62) that calls
\* reemitTrackEvent_: the task emits 'track'
CallReemit ==
    /\ InLoop
    /\ TopListener.kind = "reemit"
    /\ callStack' = Append(Stepped, EmitFrame("task", "track"))
    /\ UNCHANGED <<notTask, taskPc, running_, reemitTrackEvent_, trackerEvents, taskEvents,
                   lastEvent, taskCall, videoVars>>

\* one pass that calls a listener of the program that leaves the task alone
CallPlain ==
    /\ InLoop
    /\ \/ TopListener.kind = "plain"
       \/ TopListener.kind = "caller"
    /\ callStack' = Stepped
    /\ UNCHANGED <<notTask, taskPc, running_, reemitTrackEvent_, trackerEvents, taskEvents,
                   lastEvent, taskCall, videoVars>>

\* one pass that calls a listener of the program that calls task.run()
CallRun ==
    /\ InLoop
    /\ TopListener.kind = "caller"
    /\ CanCall
    /\ TaskRun(Stepped)
    /\ UNCHANGED <<notTask, taskPc, taskEvents, videoVars>>

\* one pass that calls a listener of the program that calls task.stop()
CallStop ==
    /\ InLoop
    /\ TopListener.kind = "caller"
    /\ CanCall
    /\ TaskStop(Stepped)
    /\ UNCHANGED <<notTask, taskPc, taskEvents, videoVars>>

\* the end of the for loop of emit and its return (line 63), or its return
\* without listeners (lines 55-57)
EmitEnd ==
    /\ callStack # <<>>
    /\ Top.kind = "emit"
    /\ Top.i >= Len(TopListeners)
    /\ callStack' = Pop
    /\ UNCHANGED <<notTask, taskPc, running_, reemitTrackEvent_, trackerEvents, taskEvents,
                   lastEvent, taskCall, videoVars>>

\* requestAnimationFrame_ (lines 540-551): a frame is requested and its
\* handle kept
requestAnimationFrame_ ==
    /\ requestId' = NewRequest
    /\ pending' = pending \cup {NewRequest}

\* tracking.trackVideo_ (lines 508-563): the task with its two listeners,
\* and task.run()
TrackVideo ==
    /\ taskPc = "none"
    /\ taskPc' = "task"
    /\ taskEvents' = Object([e \in {"stop", "run"} |->
                                IF e = "stop" THEN <<CancelListener>> ELSE <<ScheduleListener>>])
    /\ TaskRun(callStack)
    /\ UNCHANGED <<notTask, videoVars>>

\* one pass that calls the 'stop' listener of trackVideo_ (lines 555-557):
\* cancelAnimationFrame of a handle that is not pending does nothing
CallCancel ==
    /\ InLoop
    /\ TopListener.kind = "cancel"
    /\ pending' = pending \ {requestId}
    /\ callStack' = Stepped
    /\ UNCHANGED <<notTask, taskPc, running_, reemitTrackEvent_, trackerEvents, taskEvents,
                   lastEvent, taskCall, requestId>>

\* one pass that calls the 'run' listener of trackVideo_ (lines 558-561)
CallSchedule ==
    /\ InLoop
    /\ TopListener.kind = "schedule"
    /\ requestAnimationFrame_
    /\ callStack' = Stepped
    /\ UNCHANGED <<notTask, taskPc, running_, reemitTrackEvent_, trackerEvents, taskEvents,
                   lastEvent, taskCall>>

\* the window runs the callback of a pending frame (lines 541-548): when the
\* interval has elapsed and the video has data, tracker.track is called
AnimationFrame ==
    /\ callStack = <<>>
    /\ Cardinality(pending) < MaxPending \/ ~running_
    /\ \E id \in pending, due \in BOOLEAN :
          /\ pending' = pending \ {id}
          /\ IF due THEN EmitTrack(<<CallbackFrame>>) ELSE callStack' = <<CallbackFrame>>
    /\ UNCHANGED <<notTask, taskPc, running_, reemitTrackEvent_, trackerEvents, taskEvents,
                   lastEvent, taskCall, requestId>>

\* line 549: the callback requests the next frame
CallbackRequest ==
    /\ callStack # <<>>
    /\ Top.kind = "callback"
    /\ requestAnimationFrame_
    /\ callStack' = Pop
    /\ UNCHANGED <<notTask, taskPc, running_, reemitTrackEvent_, trackerEvents, taskEvents,
                   lastEvent, taskCall>>

\* no TrackerTask yet
TaskIdle ==
    /\ taskPc = "none"
    /\ running_ = FALSE
    /\ reemitTrackEvent_ = Reemit(0)
    /\ trackerEvents = NoEvents
    /\ taskEvents = NoEvents
    /\ callStack = <<>>
    /\ lastEvent = "none"
    /\ taskCall = [fn |-> "none", n |-> 0, running |-> FALSE]
    /\ requestId = 0
    /\ pending = {}

\* Bounds of the stand-alone use of a DisjointSet: its size and the number of
\* distinct union calls
DsSize == 3

MaxUnions == 3

\* disjointSet.union(a, b) on a DisjointSet of its own
DsUnion ==
    /\ mpc = "ds"
    /\ \E a \in DOMAIN parent, b \in DOMAIN parent :
          /\ <<a, b>> \in unions \/ Cardinality(unions) < MaxUnions
          /\ parent' = Union(parent, a, b)
          /\ unions' = unions \cup {<<a, b>>}
    /\ UNCHANGED <<notMerge, rects, mpc, mi, mj, result>>

\* disjointSet.find(x) on a DisjointSet of its own
DsFind ==
    /\ mpc = "ds"
    /\ \E x \in DOMAIN parent : parent' = FindCompress(parent, x)
    /\ UNCHANGED <<notMerge, rects, mpc, mi, mj, unions, result>>

MergeIdle ==
    /\ rects = <<>>
    /\ mpc = "done"
    /\ mi = 0
    /\ mj = 0
    /\ parent = <<>>
    /\ unions = {}
    /\ result = <<>>

\* no evalStages_ call
EvalIdle ==
    /\ evArgs = <<>>
    /\ evPc = "none"
    /\ evW = 0
    /\ evDone = 0

\* Scale.scale = 1.0 (Scale.js line 14), no adjustScale call yet
ScaleIdle ==
    /\ scale = 10
    /\ adjW = 0
    /\ adjH = 0

InitScale ==
    /\ ScaleIdle
    /\ MergeIdle
    /\ EvalIdle
    /\ ObjIdle
    /\ ColorIdle
    /\ FastIdle
    /\ EmitterIdle
    /\ BoxIdle
    /\ TaskIdle

NextScale == AdjustScale

SpecScale == InitScale /\ [][NextScale]_vars

\* mergeRectangles_ called on a list of raw detections, Scale.scale being any
\* value adjustScale can have stored
InitMerge ==
    /\ scale \in 0..10
    /\ adjW = 0
    /\ adjH = 0
    /\ EvalIdle
    /\ ObjIdle
    /\ ColorIdle
    /\ FastIdle
    /\ EmitterIdle
    /\ BoxIdle
    /\ TaskIdle
    /\ rects \in RectLists
    /\ mpc = "pairs"
    /\ mi = 0
    /\ mj = 0
    /\ parent = DisjointSetNew(Len(rects))
    /\ unions = {}
    /\ result = <<>>

NextMerge == MergePair \/ MergeReturn

SpecMerge == InitMerge /\ [][NextMerge]_vars

\* evalStages_ called as detect calls it: on a window of a frame that fits
\* the frame, i < height - blockHeight and j < width - blockWidth
InitEval ==
    /\ ScaleIdle
    /\ MergeIdle
    /\ ObjIdle
    /\ ColorIdle
    /\ FastIdle
    /\ EmitterIdle
    /\ BoxIdle
    /\ TaskIdle
    /\ \E data \in Cascades, f \in Frames, sc \in EvalScales :
          LET bw == ToInt(JsMul(sc, Num(At(data, 0))))
              bh == ToInt(JsMul(sc, Num(At(data, 1))))
          IN  \E i \in 0..(f.height - bh - 1), j \in 0..(f.width - bw - 1) :
                  evArgs = EvalContext(data, computeIntegralImage(f), f, i, j, bw, bh, sc)
    /\ evPc = "loop"
    /\ evW = 2
    /\ evDone = 0

SpecEval == InitEval /\ [][EvalStage \/ EvalReturnTrue]_vars

\* an ObjectTracker: constructed, configured, and track called on frames
InitObj ==
    /\ ScaleIdle
    /\ MergeIdle
    /\ EvalIdle
    /\ ObjIdle
    /\ ColorIdle
    /\ FastIdle
    /\ EmitterIdle
    /\ BoxIdle
    /\ TaskIdle

NextObj ==
    \/ ObjectTrackerNew
    \/ SetOption
    \/ TrackCall
    \/ TrackFor
    \/ DetectWhile
    \/ DetectRow
    \/ DetectWindow
    \/ DetectReturn
    \/ TrackEmit

SpecObj == InitObj /\ [][NextObj]_vars

\* a ColorTracker: constructed, configured, and track called on frames
InitColor ==
    /\ ScaleIdle
    /\ MergeIdle
    /\ EvalIdle
    /\ ObjIdle
    /\ ColorIdle
    /\ FastIdle
    /\ EmitterIdle
    /\ BoxIdle
    /\ TaskIdle

NextColor ==
    \/ ColorTrackerNew
    \/ ColorSet
    \/ ColorTrackCall
    \/ ColorTrackFor
    \/ ColorTrackEmit

SpecColor == InitColor /\ [][NextColor]_vars

\* a TrackerTask of a tracker: listeners are added, run(), stop() and
\* tracker.track are called, by the program and by the listeners
InitTask ==
    /\ ScaleIdle
    /\ MergeIdle
    /\ EvalIdle
    /\ ObjIdle
    /\ ColorIdle
    /\ FastIdle
    /\ EmitterIdle
    /\ BoxIdle
    /\ taskPc = "task"
    /\ running_ = FALSE
    /\ reemitTrackEvent_ = Reemit(0)
    /\ trackerEvents = NoEvents
    /\ taskEvents = NoEvents
    /\ callStack = <<>>
    /\ lastEvent = "none"
    /\ taskCall = [fn |-> "none", n |-> 0, running |-> FALSE]
    /\ requestId = 0
    /\ pending = {}

NextTask ==
    \/ TaskOn
    \/ RunCall
    \/ StopCall
    \/ StopRemove
    \/ TrackerTrack
    \/ CallReemit
    \/ CallPlain
    \/ CallRun
    \/ CallStop
    \/ EmitEnd

SpecTask == InitTask /\ [][NextTask]_vars

\* the task of tracking.track on a video: the program adds listeners and
\* calls run() and stop(), the window runs the animation frames
NextVideo ==
    \/ TrackVideo
    \/ TaskOn
    \/ RunCall
    \/ StopCall
    \/ StopRemove
    \/ AnimationFrame
    \/ CallbackRequest
    \/ CallReemit
    \/ CallPlain
    \/ CallRun
    \/ CallStop
    \/ CallCancel
    \/ CallSchedule
    \/ EmitEnd

SpecVideo == InitScale /\ [][NextVideo]_vars

\* scenario B: a ColorTracker for magenta, track called on the scenes, and
\* trackColor_ followed pixel by pixel
InitScene ==
    /\ ScaleIdle
    /\ MergeIdle
    /\ EvalIdle
    /\ ObjIdle
    /\ SceneTracker
    /\ FastIdle
    /\ EmitterIdle
    /\ BoxIdle
    /\ TaskIdle

NextScene ==
    \/ SceneSet
    \/ SceneTrackCall
    \/ TrackColorEnter
    \/ ScanSkip
    \/ ScanSeed
    \/ FloodPop
    \/ GroupEnd
    \/ DimensionsStep
    \/ DimensionsReturn
    \/ ScanReturn
    \/ ColorTrackEmit

SpecScene == InitScene /\ [][NextScene]_vars

\* ColorTracker.mergeRectangles_ on lists of rectangles
NextBox ==
    \/ ColorMergeCall
    \/ ColorMergeStep
    \/ ColorMergeReturn

SpecBox == InitColor /\ [][NextBox]_vars

\* a ColorTracker on the small frames, trackColor_ followed pixel by pixel;
\* the while loop of trackColor_ is not left standing
NextFlood ==
    \/ FloodSet
    \/ FloodTrackCall
    \/ TrackColorEnter
    \/ ScanPixel
    \/ FloodPop
    \/ GroupEnd
    \/ DimensionsStep
    \/ DimensionsReturn
    \/ ScanReturn
    \/ ColorTrackEmit

SpecFlood ==
    /\ InitScene
    /\ [][NextFlood]_vars
    /\ WF_vars(FloodPop)
    /\ WF_vars(GroupEnd)

\* Fast.isCorner called on a pixel and its circle
InitIsCorner ==
    /\ ScaleIdle
    /\ MergeIdle
    /\ EvalIdle
    /\ ObjIdle
    /\ ColorIdle
    /\ FindIdle
    /\ EmitterIdle
    /\ BoxIdle
    /\ TaskIdle
    /\ icP = 100
    /\ icThreshold = THRESHOLD
    /\ icCircle \in CirclePatterns
    /\ icResult = "none"

SpecIsCorner == InitIsCorner /\ [][IsCornerCall]_vars

\* calls of Fast.findCorners, one after the other
InitFast ==
    /\ ScaleIdle
    /\ MergeIdle
    /\ EvalIdle
    /\ ObjIdle
    /\ ColorIdle
    /\ FastIdle
    /\ EmitterIdle
    /\ BoxIdle
    /\ TaskIdle

NextFast ==
    \/ FindCall
    \/ FindStep
    \/ FindReturn

SpecFast == InitFast /\ [][NextFast]_vars

\* calls of Fast.findCorners on the buffers with one right-angle corner
NextCorner ==
    \/ FindCorner
    \/ FindStep
    \/ FindReturn

SpecCorner == InitFast /\ [][NextCorner]_vars

\* an EventEmitter: listeners added and removed, events emitted
InitEmitter ==
    /\ ScaleIdle
    /\ MergeIdle
    /\ EvalIdle
    /\ ObjIdle
    /\ ColorIdle
    /\ FastIdle
    /\ EmitterIdle
    /\ BoxIdle
    /\ TaskIdle

NextEmitter ==
    \/ AddListener
    \/ Once
    \/ RemoveListener
    \/ RemoveAllListeners
    \/ EmitCall
    \/ EmitStep
    \/ EmitLoopEnd
    \/ EmitReturn

SpecEmitter == InitEmitter /\ [][NextEmitter]_vars

\* a DisjointSet used on its own, or by mergeRectangles_
InitDs ==
    /\ ScaleIdle
    /\ EvalIdle
    /\ ObjIdle
    /\ ColorIdle
    /\ FastIdle
    /\ EmitterIdle
    /\ BoxIdle
    /\ TaskIdle
    /\ rects = <<>>
    /\ mpc = "ds"
    /\ mi = 0
    /\ mj = 0
    /\ parent = DisjointSetNew(DsSize)
    /\ unions = {}
    /\ result = <<>>

SpecDisjointSet ==
    (InitDs \/ InitMerge) /\ [][DsUnion \/ DsFind \/ MergePair \/ MergeReturn]_vars

(***************************************************************************)
(* Claims                                                                  *)
(***************************************************************************)
\* the indices connected to those of S by the union calls U
RECURSIVE Reach(_, _)
Reach(S, U) ==
    LET T == S \cup {u[2] : u \in {v \in U : v[1] \in S}}
                \cup {u[1] : u \in {v \in U : v[2] \in S}}
    IN  IF T = S THEN S ELSE Reach(T, U)

\* every find result of a parent array
AllFinds(par) == [k \in DOMAIN par |-> FindRep(par, k)]

\* the claim's condition on two raw detections, in whole numbers: they
\* intersect, and overlap/(area1*area1/area2) and overlap/(area2*area1/area2)
\* are both at least 1/2
ClaimedSameGroup(r1, r2) ==
    LET area1 == r1.width * r1.height
        area2 == r2.width * r2.height
        ow == Min(r1.x + r1.width, r2.x + r2.width) - Max(r1.x, r2.x)
        oh == Min(r1.y + r1.height, r2.y + r2.height) - Max(r1.y, r2.y)
    IN  /\ ow >= 0 /\ oh >= 0
        /\ area1 > 0 /\ area2 > 0
        /\ 2 * ow * oh * area2 >= area1 * area1
        /\ 2 * ow * oh >= area1

ScenarioC == <<Rect(10, 10, 20, 20), Rect(15, 15, 20, 20)>>

\* C5: when mergeRectangles_ has returned, two raw detections that intersect
\* and whose two overlap ratios are both >= 0.5 have the same representative,
\* and the two detections of scenario C give one rectangle with total = 2.
C5_OverlappingPairMerges ==
    mpc = "done" =>
        /\ \A i \in DOMAIN parent, j \in DOMAIN parent :
              ClaimedSameGroup(rects[i + 1], rects[j + 1])
                  => GroupRep(parent, i) = GroupRep(parent, j)
        /\ rects = ScenarioC => Len(result) = 1 /\ result[1].total = 2

C5_Witness == mpc = "done" /\ rects = ScenarioC /\ Len(result) = 1

\* Math.round of sum/total, for sum >= 0
RoundedAverage(sum, total) == (2 * sum + total) \div (2 * total)

\* C6: for every ScaleFactor in (0, 1] each output field is the rounded
\* average of the members' field divided by ScaleFactor (field * scale/10 =
\* rounded average), and total is the number of members.
C6_RoundedAverageOverScale ==
    (mpc = "done" /\ scale \in 1..10) =>
        \A q \in 1..Len(result) :
            LET mem == Members(parent, MapKeys(parent)[q])
                n == Cardinality(mem)
            IN  /\ result[q].total = n
                /\ \A f \in {"x", "y", "width", "height"} :
                      result[q][f] * scale = 10 * RoundedAverage(SumOver(rects, mem, f), n)

\* C7: find(x) = find(y) exactly when x and y are connected by the unions
\* made so far; union(x, x) and a union of two connected indices (a repeated
\* union(x, y) among them) change no find result; and when the cascade merge
\* has returned, raw detections chained by qualifying overlaps share a group.
C7_FindIsConnectivity ==
    /\ \A x \in DOMAIN parent, y \in DOMAIN parent :
          /\ (FindRep(parent, x) = FindRep(parent, y)) <=> (y \in Reach({x}, unions))
          /\ (x = y \/ <<x, y>> \in unions)
                => AllFinds(Union(parent, x, y)) = AllFinds(parent)
    /\ mpc = "done" =>
          LET chained == {ij \in (DOMAIN parent) \X (DOMAIN parent) :
                             ClaimedSameGroup(rects[ij[1] + 1], rects[ij[2] + 1])}
          IN  \A x \in DOMAIN parent : \A y \in Reach({x}, chained) :
                  GroupRep(parent, x) = GroupRep(parent, y)

C7_Witness ==
    /\ {<<0, 1>>, <<1, 2>>} \subseteq unions
    /\ <<0, 2>> \notin unions /\ <<2, 0>> \notin unions
    /\ FindRep(parent, 0) = FindRep(parent, 2)

Area(r) == r.width * r.height

\* the pairs of the pair loops still to do
PairsLeft == IF mpc = "done" THEN 0 ELSE Len(rects) * Len(rects) - (mi * Len(rects) + mj) + 1

\* C8: in the cascade merge union(i, j) is never called for two distinct
\* rectangles of which one has zero area, every union call divides by
\* non-zero areas only, every step of the merge brings its return nearer, and
\* the returned groups hold every rectangle.
C8_ZeroAreaNeverUnioned ==
    /\ [](\A u \in unions : Area(rects[u[1] + 1]) > 0 /\ Area(rects[u[2] + 1]) > 0)
    /\ [][PairsLeft' < PairsLeft]_vars
    /\ [](mpc = "pairs" => mi <= Len(rects) /\ mj < Max(Len(rects), 1))
    /\ [](mpc = "done" =>
          /\ \A k \in DOMAIN parent : \E q \in 1..Len(result) :
                MapKeys(parent)[q] = GroupRep(parent, k)
          /\ SumOver(result, {q - 1 : q \in 1..Len(result)}, "total") = Len(rects))

C8_Witness ==
    /\ mpc = "done"
    /\ \E i \in DOMAIN parent, j \in DOMAIN parent :
          /\ Area(rects[i + 1]) = 0 /\ Area(rects[j + 1]) > 0
          /\ intersectRect(Num(rects[i + 1].x), Num(rects[i + 1].y),
                           Num(rects[i + 1].x + rects[i + 1].width),
                           Num(rects[i + 1].y + rects[i + 1].height),
                           Num(rects[j + 1].x), Num(rects[j + 1].y),
                           Num(rects[j + 1].x + rects[j + 1].width),
                           Num(rects[j + 1].y + rects[j + 1].height))
          /\ GroupRep(parent, i) # GroupRep(parent, j)
    /\ \E u \in unions : u[1] # u[2]

\* C9: for all width > 0 and height > 0 the ScaleFactor stored by
\* adjustScale(width, height) satisfies 0 < ScaleFactor <= 1.
C9_ScaleInUnitInterval ==
    (adjW > 0 /\ adjH > 0) => (0 < scale /\ scale <= 10)

\* C10: adjustScale stores min(1, 1/sqrt(width*height/50000)) quantized to
\* the nearest tenth: the stored tenths k satisfy |k - 10*ratio| <= 1/2, that
\* is (2k - 1)^2 <= 400*50000/(w*h) <= (2k + 1)^2 for the unclamped ratio, and
\* k = 10 whenever width*height <= 50000.
C10_NearestTenth ==
    (adjW > 0 /\ adjH > 0) =>
        LET wh == adjW * adjH
            n == 400 * PIXEL_THRESHOLD
            lo == (2 * scale - 1) * (2 * scale - 1)
            hi == (2 * scale + 1) * (2 * scale + 1)
        IN  /\ scale \in 0..10
            /\ wh <= PIXEL_THRESHOLD => scale = 10
            /\ wh >= PIXEL_THRESHOLD =>
                  /\ scale >= 1 => lo <= n \div wh
                  /\ wh >= (n + hi - 1) \div hi

C10_Witness == adjW * adjH > PIXEL_THRESHOLD /\ scale = 7

\* the verdict, stageSum >= stageThreshold, of every stage from cursor w on,
\* none skipped
RECURSIVE AllVerdicts(_, _)
AllVerdicts(ctx, w) ==
    IF w >= Len(ctx.data) THEN <<>>
    ELSE LET st == Stage(ctx, w)
         IN  <<st.stageSum >= st.stageThreshold>> \o AllVerdicts(ctx, st.w)

\* C1: evalStages_ returns true exactly when every stage has stageSum >=
\* stageThreshold; when it returns false it has evaluated the stages up to
\* the first failing one and no further; so the early exit gives the answer
\* of the evaluation of all stages.
C1_EarlyExitIsFullEvaluation ==
    evPc \in {"true", "false"} =>
        LET v == AllVerdicts(evArgs, 2)
        IN  /\ (evPc = "true") <=> (\A k \in 1..Len(v) : v[k])
            /\ evPc = "true" => evDone = Len(v)
            /\ evPc = "false" => /\ evDone \in 1..Len(v)
                                  /\ ~v[evDone]
                                  /\ \A k \in 1..(evDone - 1) : v[k]

\* a window rejected at its second stage, whose third stage would have passed
C1_Witness ==
    /\ evPc = "false"
    /\ evDone = 2
    /\ Len(AllVerdicts(evArgs, 2)) = 3
    /\ AllVerdicts(evArgs, 2)[3]


\* detect is inside its scanning loops
Scanning == tpc \in {"while", "rows", "cols", "return"}

\* C2: a detect call whose scaleFactor is not greater than 1 is refused
\* before any window is scanned, so detect is never inside its loops with
\* such a scaleFactor.
C2_ScaleFactorAtMostOneRejected == Scanning => JsLt(Num(1), scaleFactor)

\* no classifiers are configured: the list is absent or empty
FalsyOrEmpty(c) == c.kind # "array" \/ c.list = <<>>

\* C4: a track call made while no classifiers are set (none given, or an
\* empty list) throws, starts no detection and emits no 'track' event.
C4_NoClassifiersIsError ==
    (lastCall = "track" /\ FalsyOrEmpty(classifiers))
        => (threw /\ emitted = 0 /\ tpc = "idle")

\* some configured colour is not registered
HasUnknownColor(c) == c.kind = "array" /\ \E q \in 1..Len(c.list) : c.list[q] \notin KnownColors

\* C3: a track call on a ColorTracker whose colour list holds an
\* unregistered name throws, runs no colour and emits no 'track' event.
C3_UnknownColorIsError ==
    (cLastCall = "track" /\ HasUnknownColor(colors))
        => (cThrew /\ cEmitted = 0 /\ cpc = "idle")

\* some 9 consecutive samples of the circle are all brighter than p by more
\* than the threshold, or all darker
HasArc(p, circlePixels, threshold) ==
    \E start \in 0..15 :
        \/ \A y \in 0..8 : Sample(circlePixels, (start + y) % 16) - p > threshold
        \/ \A y \in 0..8 : p - Sample(circlePixels, (start + y) % 16) > threshold

\* C11: isCorner returns true exactly when the circle has such an arc.
C11_CornerIffArc ==
    icResult # "none" => (icResult = "true" <=> HasArc(icP, icCircle, icThreshold))

\* the corners of a 12x12 buffer with one bright right-angle corner at (6, 6)
NearTip(list) ==
    /\ Len(list) = 2
    /\ list[1] \in 5..7
    /\ list[2] \in 5..7

\* C12: findCorners with threshold 40 on a 12x12 buffer holding one bright
\* right-angle corner at (6, 6) of contrast 100 returns exactly one corner,
\* at most one pixel away from (6, 6).
C12_ScenarioAOneCorner ==
    (fpc = "done" /\ fImage \in CornerImages /\ fThreshold = 40) => NearTip(corners)

\* the corners of list, each moved by (dx, dy)
Moved(list, dx, dy) ==
    [q \in 1..Len(list) |-> IF q % 2 = 1 THEN list[q] + dx ELSE list[q] + dy]

\* the call that just ended was made on the buffer of the call before it,
\* shifted by (dx, dy), with the same threshold
ShiftedAgain(dx, dy) ==
    /\ fpc = "done"
    /\ fCalls # <<>>
    /\ fThreshold = fCalls[1].threshold
    /\ fImage = Shift(fCalls[1].image, dx, dy)

\* C13 as claimed: the corners of a shifted buffer are the corners of the
\* buffer, each moved by the shift.
C13_TranslationInvariance ==
    \A d \in Shifts : ShiftedAgain(d[1], d[2]) => corners = Moved(fCalls[1].corners, d[1], d[2])

\* the pixels that are scanned in the buffer shifted by (dx, dy) and come from
\* the margin of the buffer, which is not scanned, or from the padding
NewlyScanned(img, dx, dy) ==
    {c \in (3..(img.width + dx - 4)) \X (3..(img.height + dy - 4)) :
        c[1] < 3 + dx \/ c[2] < 3 + dy}

\* the pixel (x, y) of the buffer passes Fast.isCorner
CornerAt(img, x, y, threshold) ==
    isCorner(GrayAt(img, y * img.width + x),
             [q \in 1..16 |-> GrayAt(img, y * img.width + x + CircleOf(img.width)[q])],
             threshold)

\* C13, amended: the corners of a shifted buffer are the corners of the
\* buffer, each moved by the shift, when none of the pixels that only the
\* shifted buffer scans is a corner.
C13_TranslationInvarianceInside ==
    \A d \in Shifts :
        (/\ ShiftedAgain(d[1], d[2])
         /\ \A c \in NewlyScanned(fCalls[1].image, d[1], d[2]) :
                ~CornerAt(fImage, c[1], c[2], fThreshold))
            => corners = Moved(fCalls[1].corners, d[1], d[2])

\* a buffer with a corner, then the buffer shifted to another width, both
\* widths having a memoized circle
C13_Witness ==
    /\ ShiftedAgain(1, 1)
    /\ fMemoized
    /\ fCalls[1].image.width \in DOMAIN circles_
    /\ Len(corners) > 0
    /\ corners = Moved(fCalls[1].corners, 1, 1)
    /\ \A c \in NewlyScanned(fCalls[1].image, 1, 1) : ~CornerAt(fImage, c[1], c[2], fThreshold)

\* the pixels, as i * width + j, that the colour function accepts
Matching(img, color) ==
    {q \in 0..(img.width * img.height - 1) :
        ColorFn(color, Px(img, 4 * q), Px(img, 4 * q + 1), Px(img, 4 * q + 2))}

\* two different pixels that touch, diagonals included
Touching(img, a, b) ==
    /\ a # b
    /\ (a % img.width) - (b % img.width) \in -1..1
    /\ (a \div img.width) - (b \div img.width) \in -1..1

\* the pixels of M connected to those of S
RECURSIVE Grow(_, _, _)
Grow(img, M, S) ==
    LET T == S \cup {b \in M : \E a \in S : Touching(img, a, b)}
    IN  IF T = S THEN S ELSE Grow(img, M, T)

\* the maximal 8-connected sets of matching pixels
Components(img, color) == {Grow(img, Matching(img, color), {a}) : a \in Matching(img, color)}

\* trackColor_ has just run for a registered colour
ColorDone == cpc = "for" /\ colorIdx > 0 /\ colors.list[colorIdx] \in KnownColors

\* C14: the candidate boxes are as many as the components that have at least
\* minGroupSize matched pixels: each of those gives a box, no other does.
C14_BoxIffGroupSize ==
    ColorDone =>
        Len(candidates) = Cardinality({comp \in Components(image, colors.list[colorIdx]) :
                                          Cardinality(comp) >= minGroupSize})

\* the bounding box of a set of pixels, with the colour name
BoundingBox(img, comp, color) ==
    LET xs == {q % img.width : q \in comp}
        ys == {q \div img.width : q \in comp}
        minx == CHOOSE v \in xs : \A u \in xs : v <= u
        maxx == CHOOSE v \in xs : \A u \in xs : v >= u
        miny == CHOOSE v \in ys : \A u \in ys : v <= u
        maxy == CHOOSE v \in ys : \A u \in ys : v >= u
    IN  [width |-> Num(maxx - minx), height |-> Num(maxy - miny),
         x |-> Num(minx), y |-> Num(miny), color |-> color]

\* C15: every candidate box made for a component (with minGroupSize >= 1 a
\* box is only made from matched pixels) is the bounding box of all matched
\* pixels of a component, and carries the colour name.
C15_BoxIsBoundingBox ==
    (ColorDone /\ minGroupSize >= 1) =>
        \A q \in 1..Len(candidates) :
            \E comp \in Components(image, colors.list[colorIdx]) :
                candidates[q] = BoundingBox(image, comp, colors.list[colorIdx])

\* C17: every rectangle of a 'track' event of a ColorTracker has its width
\* and its height at least minDimension and at most maxDimension.
C17_EmittedWithinDimensions ==
    cpc = "emit" =>
        \A q \in 1..Len(cResults) :
            /\ JsGe(cResults[q].width, minDimension) /\ JsGe(maxDimension, cResults[q].width)
            /\ JsGe(cResults[q].height, minDimension) /\ JsGe(maxDimension, cResults[q].height)

\* rectangles are emitted under both bounds, and a candidate was left out
C17_Witness ==
    /\ cpc = "emit"
    /\ minDimension = Num(1)
    /\ maxDimension = Num(2)
    /\ Len(cResults) > 0
    /\ Len(cResults) < Len(candidates)

\* the merged rectangles of the colours from the q-th of the list on, one
\* colour after the other
RECURSIVE PerColor(_, _, _, _, _, _)
PerColor(img, list, q, minSize, minDim, maxDim) ==
    IF q > Len(list) THEN <<>>
    ELSE trackColor_(img, list[q], minSize, minDim, maxDim)
            \o PerColor(img, list, q + 1, minSize, minDim, maxDim)

\* C18: the data that track emits is the merged rectangles of the first
\* colour, then those of the second, and so on; the rectangles of two
\* colours are not merged with each other.
C18_DataIsConcatenation ==
    cpc = "emit" =>
        cResults = PerColor(image, colors.list, 1, minGroupSize, minDimension, maxDimension)

\* two colours, whose rectangles intersect, both emitted, in the order of
\* the list
C18_Witness ==
    /\ cpc = "emit"
    /\ colors.list = <<"cyan", "magenta">>
    /\ Len(cResults) = 2
    /\ cResults[1].color = "cyan"
    /\ cResults[2].color = "magenta"
    /\ intersectRect(cResults[1].x, cResults[1].y,
                     JsAdd(cResults[1].x, cResults[1].width),
                     JsAdd(cResults[1].y, cResults[1].height),
                     cResults[2].x, cResults[2].y,
                     JsAdd(cResults[2].x, cResults[2].width),
                     JsAdd(cResults[2].y, cResults[2].height))

\* the top left pixel of the block of the scene
Block == CHOOSE b \in BlockPositions : image = Scene(b[1], b[2])

Within1(v, n) == JsGe(v, Num(n - 1)) /\ JsGe(Num(n + 1), v)

\* C16 (scenario B): with colors = ['magenta'], minGroupSize = 30 and the
\* defaults otherwise, track on a 40x40 frame with one 10x10 magenta block
\* emits exactly one rectangle, of colour 'magenta', whose bounds are those
\* of the block within 1 pixel.
C16_ScenarioBOneRectangle ==
    (/\ cpc = "emit"
     /\ image \in Scenes
     /\ colors = Array(<<"magenta">>)
     /\ minGroupSize = 30
     /\ minDimension = Num(20)
     /\ maxDimension = Inf)
    => /\ Len(cResults) = 1
       /\ cResults[1].color = "magenta"
       /\ Within1(cResults[1].x, Block[1])
       /\ Within1(cResults[1].y, Block[2])
       /\ Within1(JsAdd(cResults[1].x, cResults[1].width), Block[1] + BlockSize - 1)
       /\ Within1(JsAdd(cResults[1].y, cResults[1].height), Block[2] + BlockSize - 1)

\* C19: emit invokes every listener that was registered for the event when
\* emit was called, once each, in the order of registration and with the
\* arguments of emit; also when listeners remove themselves or others while
\* emit runs.
C19_EmitInvokesEachOnce ==
    epc = "return" =>
        eLog = [q \in 1..Len(eSnapshot) |-> [fn |-> eSnapshot[q], args |-> eArgs]]

\* C20: emit returns true if the event had at least one registered listener
\* when it was called, and false otherwise.
C20_EmitReturnsHadListeners ==
    epc = "return" => (eRet = "true" <=> eSnapshot # <<>>)

\* C21: a listener added with once is invoked on the next emit of the
\* event, exactly once, and is no longer registered when that emit returns.
C21_OnceRunsOnNextEmit ==
    (epc = "return" /\ eEvent = "track") =>
        \A q \in 1..Len(eSnapshot) :
            eSnapshot[q].kind = "once" =>
                /\ Cardinality({t \in 1..Len(eLog) : eLog[t].fn = eSnapshot[q]}) = 1
                /\ IndexOf(Listeners(events_, "track"), eSnapshot[q]) = 0

\* C22: in one trackColor_ call no pixel is marked and pushed twice or
\* handed to colorFn twice, the stack fits the Int32Array(pixels.length) of
\* line 321 at three entries a pixel, and the flood fill of every group ends.
C22_EachPixelOnce ==
    /\ [](/\ repeated = {}
          /\ testedW \subseteq pushedW
          /\ pushedW = marked
          /\ 3 * Len(queue) <= Len(image.pixels))
    /\ (cpc = "fill") ~> (cpc # "fill")

\* a group of several pixels has been filled: its pixels and the pixels
\* around it, which do not match, have all been tested
C22_Witness ==
    /\ cpc = "fill"
    /\ queue = <<>>
    /\ currGroupSize >= 8
    /\ \E w \in testedW :
          ~ColorFn(colors.list[colorIdx + 1], Px(image, w), Px(image, w + 1), Px(image, w + 2))

\* the closed rectangles of two boxes have a point in common
Meet(a, b) ==
    /\ JsGe(JsAdd(b.x, b.width), a.x) /\ JsGe(JsAdd(a.x, a.width), b.x)
    /\ JsGe(JsAdd(b.y, b.height), a.y) /\ JsGe(JsAdd(a.y, a.height), b.y)

\* the smallest box that holds both, with the colour of b
Hull(a, b) ==
    LET x1 == JsMin(a.x, b.x)
        y1 == JsMin(a.y, b.y)
    IN  [x |-> x1, y |-> y1,
         width |-> JsSub(JsMax(JsAdd(a.x, a.width), JsAdd(b.x, b.width)), x1),
         height |-> JsSub(JsMax(JsAdd(a.y, a.height), JsAdd(b.y, b.height)), y1),
         color |-> b.color]

\* C23: mergeRectangles_ is one forward sweep. The box being processed is
\* left out exactly when it meets a later box or fails the dimension bounds;
\* when it meets one, the first such later box becomes the hull of the two
\* and no other box changes; the boxes kept are appended, so keep their order.
C23_ForwardSweep ==
    [][(cmPc = "loop" /\ cmR' = cmR + 1) =>
         LET later == {s \in (cmR + 1)..Len(cmRects) : Meet(cmRects[cmR], cmRects[s])}
             inBounds == /\ JsGe(cmRects[cmR].width, cmMin) /\ JsGe(cmRects[cmR].height, cmMin)
                         /\ JsGe(cmMax, cmRects[cmR].width) /\ JsGe(cmMax, cmRects[cmR].height)
         IN  /\ cmOut' = IF later = {} /\ inBounds THEN Append(cmOut, cmRects[cmR]) ELSE cmOut
             /\ Len(cmRects') = Len(cmRects)
             /\ \A s \in 1..Len(cmRects) :
                   cmRects'[s] = IF later # {} /\ s \in later /\ \A t \in later : s <= t
                                 THEN Hull(cmRects[cmR], cmRects[s])
                                 ELSE cmRects[s]]_vars

\* a sweep of three boxes has ended: one was merged into a later one, one
\* was kept
C23_Witness ==
    /\ cmPc = "done"
    /\ Len(cmIn) = 3
    /\ cmRects # cmIn
    /\ Len(cmOut) = 2

\* C24: no two rectangles of the result of mergeRectangles_ intersect.
C24_ResultDisjoint ==
    cmPc = "done" =>
        \A q \in 1..Len(cmOut), t \in 1..Len(cmOut) : q # t => ~Meet(cmOut[q], cmOut[t])

\* the k-th corner of the flat list corners, as <<x, y>>
Pair(k) == <<corners[2 * k - 1], corners[2 * k]>>

\* C25: the corners of Fast.findCorners are a flat list of pairs (x, y) with
\* 3 <= x <= width - 4 and 3 <= y <= height - 4, in the order of the scan
\* (row by row, left to right); the 16 circle samples of a pixel are read
\* inside the buffer; a buffer less than 7 wide or high has no corner.
C25_CornersInsideMargin ==
    fpc \in {"scan", "done"} =>
        /\ Len(corners) % 2 = 0
        /\ \A k \in 1..(Len(corners) \div 2) :
              /\ 3 <= Pair(k)[1] /\ Pair(k)[1] <= fImage.width - 4
              /\ 3 <= Pair(k)[2] /\ Pair(k)[2] <= fImage.height - 4
        /\ \A k \in 1..(Len(corners) \div 2 - 1) :
              \/ Pair(k)[2] < Pair(k + 1)[2]
              \/ Pair(k)[2] = Pair(k + 1)[2] /\ Pair(k)[1] < Pair(k + 1)[1]
        /\ fReads \subseteq 0..(fImage.width * fImage.height - 1)
        /\ (fImage.width < 7 \/ fImage.height < 7) => (corners = <<>> /\ fReads = {})

\* a scan that found two corners has ended
C25_Witness ==
    /\ fpc = "done"
    /\ Len(corners) >= 4
    /\ fReads # {}


\* C26: whenever no call of the task or of its tracker is running, the
\* tracker's 'track' event has exactly one listener of the task when the
\* task is running, and none when it is not: a 'track' event is re-emitted
\* once while running and never while stopped.
C26_OneReemitWhileRunning ==
    (taskPc = "task" /\ callStack = <<>>) =>
        Len(Listeners(trackerEvents, "track")) = IF running_ THEN 1 ELSE 0

\* C27: a call of run() on a running task and of stop() on a task that is
\* not running changes nothing; every other call emits its event, 'run' and
\* 'stop' in turn with 'run' first, and flips the running flag.
C27_RunStopAlternate ==
    [][taskCall' # taskCall =>
          IF (taskCall'.fn = "run") = running_
          THEN /\ UNCHANGED <<running_, reemitTrackEvent_, trackerEvents, taskEvents,
                               lastEvent>>
               /\ Len(callStack') <= Len(callStack)
          ELSE /\ lastEvent' = taskCall'.fn
               /\ lastEvent # taskCall'.fn
               /\ lastEvent = "none" => taskCall'.fn = "run"
               /\ running_' = ~running_
               /\ callStack'[Len(callStack')] = EmitFrame("task", taskCall'.fn)]_vars

C27_Witness ==
    /\ taskCall.fn = "run"
    /\ taskCall.running
    /\ lastEvent = "run"
    /\ callStack # <<>>

\* C28: a video task that is not running and has no call running has no
\* animation frame pending, and a task never has two frames pending.
C28_LoopHaltedAfterStop ==
    /\ Cardinality(pending) <= 1
    /\ (taskPc = "task" /\ callStack = <<>> /\ ~running_) => pending = {}


\* C29: with scaleFactor > 1, initialScale > 0 and stepSize > 0, inside the
\* position loops of detect the step is at least 1, and the window about to
\* be handed to the cascade fits: i + blockHeight < height and
\* j + blockWidth < width.
C29_DetectAdvances ==
    (/\ tpc \in {"rows", "cols"}
     /\ JsLt(Num(1), scaleFactor)
     /\ JsLt(Num(0), initialScale)
     /\ JsLt(Num(0), stepSize)) =>
        /\ step >= 1
        /\ (tpc = "cols" /\ dj < frame.width - blockWidth) =>
               /\ di + blockHeight < frame.height
               /\ dj + blockWidth < frame.width


\* the multiset of the elements of a list
BagOf(list) ==
    [x \in {list[q] : q \in DOMAIN list} |-> Cardinality({q \in DOMAIN list : list[q] = x})]

\* the raw detections with those at a and b exchanged
Exchanged(list, a, b) ==
    [q \in DOMAIN list |-> IF q = a THEN list[b] ELSE IF q = b THEN list[a] ELSE list[q]]

RECURSIVE SumOfTotals(_)
SumOfTotals(list) ==
    IF list = <<>> THEN 0 ELSE list[1].total + SumOfTotals(Tail(list))

\* C30: when the cascade merge has returned, every raw detection is a member
\* of exactly one group, the totals of the output sum to the number of raw
\* detections, and the raw detections with any two of them exchanged give
\* the same multiset of output rectangles (every order of a list is reached
\* by such exchanges, and every list is merged).
C30_MergePartitions ==
    mpc = "done" =>
        /\ \A k \in DOMAIN parent :
               Cardinality({q \in 1..Len(MapKeys(parent)) :
                               k \in Members(parent, MapKeys(parent)[q])}) = 1
        /\ Len(result) = Len(MapKeys(parent))
        /\ SumOfTotals(result) = Len(rects)
        /\ \A a \in DOMAIN rects, b \in DOMAIN rects :
               a < b => BagOf(mergeRectangles_(Exchanged(rects, a, b), scale)) = BagOf(result)

C30_Witness ==
    /\ mpc = "done"
    /\ Len(rects) = 3
    /\ Len(result) = 2
    /\ rects[1] # rects[2] /\ rects[2] # rects[3] /\ rects[1] # rects[3]
    /\ SameRegion(rects[1], rects[3])

====
